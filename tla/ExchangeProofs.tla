--------------------------- MODULE ExchangeProofs ---------------------------
(***************************************************************************)
(* Theorems about Exchange, for any number of senders, readers, draws and  *)
(* broken connections.                                                     *)
(***************************************************************************)
EXTENDS ExchangeRefinement, TLAPS

----------------------------------------------------------------------------
(* The types, of what TypeOK leaves out too.                               *)

Forms == [at : {"form", "waiting", "result"}, attempt : Nat, slug : Slugs,
          key : LinkKeys \cup {Null}, passphrase : Passphrases \cup {Null}]

Tabs == [at : {"closed", "404", "loading", "ready", "asking", "secret", "locked"},
         slug : Slugs, key : LinkKeys \cup {Null}, needsPassphrase : BOOLEAN,
         passphrase : Passphrases \cup {Null}]

Links == [slug : LinkKeys, key : LinkKeys]

Typed ==
  /\ rows \in [Slugs -> Rows \cup {Stranger, Null}]
  /\ rows[0] = Stranger
  /\ \A s \in Slugs \ {0} : rows[s] \in Rows \cup {Null}
  /\ asked \in [Pages -> Requests \cup {Null}]
  /\ answer \in [Pages -> Answers \cup {Null}]
  /\ late \in SUBSET Requests /\ astray \in SUBSET Requests
  /\ broken \in Nat
  /\ burned \in SUBSET Ciphertexts /\ expired \in SUBSET Ciphertexts
  /\ form \in [Senders -> Forms]
  /\ draws \in Nat /\ draws <= MaxDraws
  /\ shared \in SUBSET Links
  /\ tab \in [Readers -> Tabs]
  /\ read \in SUBSET Ciphertexts
----------------------------------------------------------------------------
(* Who asks for what.                                                      *)

Proof(passphrase, slug) ==
  IF passphrase = Null THEN Null ELSE DeriveVerifier(passphrase, slug)

\* A row, or a request, has a ciphertext made for slug s and its own link key,
\* and the verifier of the passphrase that it was made with.
Sealed(r, s) ==
  \E passphrase \in Passphrases \cup {Null} :
    /\ r.ciphertext = EncryptSecret(s, s, passphrase)
    /\ r.verifier = Proof(passphrase, s)

Offered == {l.slug : l \in shared}

\* A sender that waits has posted, for the slug of the link or slug 0.
Posting(p) ==
  /\ asked[p].kind = "post"
  /\ form[p].at = "waiting"
  /\ asked[p].slug = form[p].slug
  /\ form[p].key \in 1..draws
  /\ asked[p].slug # 0 => asked[p].slug = form[p].key /\ Sealed(asked[p], asked[p].slug)

Consuming(t) ==
  /\ asked[t].kind = "consume"
  /\ tab[t].at = "asking"
  /\ asked[t].verifier = Proof(tab[t].passphrase, tab[t].slug)

\* A reader asks for a secret whose link was shown.
Reading(t) ==
  /\ asked[t].slug = tab[t].slug
  /\ (asked[t].kind = "meta" /\ tab[t].at = "loading") \/ Consuming(t)

\* An answer is to a request; nothing is created under slug 0.
Replied(p) ==
  /\ asked[p] # Null
  /\ answer[p].status = "201" => asked[p].slug # 0

\* What else the server may get to handle.
Fits(q) ==
  IF q.kind = "post" THEN q.slug # 0 => Sealed(q, q.slug) ELSE q.slug \in Offered

Asked ==
  /\ \A p \in Senders : asked[p] # Null => Posting(p)
  /\ \A p \in Senders : form[p].at = "waiting" => asked[p] # Null
  /\ \A t \in Readers : asked[t] # Null => Reading(t)
  /\ \A p \in Pages : answer[p] # Null => Replied(p)
  /\ \A q \in late : Fits(q)
  /\ \A s \in Slugs \ {0} : rows[s] # Null => Sealed(rows[s], s)
  /\ \A l \in shared : l.key = l.slug /\ l.slug <= draws
  /\ \A t \in Readers :
       tab[t].at \in {"loading", "ready", "asking"} =>
         tab[t].slug \in Offered /\ tab[t].key \in LinkKeys

Base == Typed /\ Asked
----------------------------------------------------------------------------
(* Whose slug it is.                                                       *)

LateAt(s) == \E q \in late : q.kind = "post" /\ q.slug = s

Unused(s) == rows[s] = Null /\ ~LateAt(s)

\* A sender's slug is its own until the link is shown: nothing was stored under
\* it if the page knows that it was not, nothing is on its way that the page
\* does not wait for.
Owns(p) ==
  /\ answer[p] = Null \/ answer[p].status \notin {"201", "500", Lost} =>
       Unused(asked[p].slug)
  /\ answer[p] # Null /\ answer[p].status # Lost => ~LateAt(asked[p].slug)
  /\ asked[p].slug \notin Offered
  /\ \A o \in Senders : asked[o] # Null /\ asked[o].slug = asked[p].slug => o = p

Owned ==
  /\ \A s \in Slugs : s > draws => Unused(s)
  /\ \A p \in Senders : asked[p] # Null /\ asked[p].slug # 0 => Owns(p)
  /\ \A s \in Offered : ~LateAt(s)
----------------------------------------------------------------------------
(* What becomes of a secret.                                               *)

\* It is in the table, or was.
Kept(s) ==
  \/ rows[s] # Null
  \/ \E c \in burned \cup expired : c.key.link = s /\ c.aad = s

Carries(t) == answer[t] # Null /\ answer[t].ciphertext # Null

\* What page p has been told is so.
Knows(p) ==
  /\ answer[p].ciphertext = Null
  /\ answer[p].status = "201" => Kept(asked[p].slug)
  /\ answer[p].status \in {"500", Lost} => asked[p] \in astray

Told ==
  /\ \A p \in Senders : answer[p] # Null => Knows(p)
  /\ late \subseteq astray
  /\ \A s \in Offered : Kept(s)

\* The answer with a ciphertext is the only copy of it.
Sole(t) ==
  /\ t \in Readers /\ asked[t].kind = "consume" /\ answer[t].status = "200"
  /\ answer[t].ciphertext.aad = asked[t].slug
  /\ rows[asked[t].slug] = Null
  /\ \A o \in Pages : Carries(o) /\ asked[o].slug = asked[t].slug => o = t
  /\ \A c \in read : c.aad # asked[t].slug

OnlyCopy ==
  /\ \A t \in Pages : Carries(t) => Sole(t)
  /\ \A c \in read : c.aad \in Offered /\ rows[c.aad] = Null

\* What a tab knows of the secret's gate is so, as long as there is a secret.
Gate(t, gated) ==
  rows[tab[t].slug] # Null => (gated <=> rows[tab[t].slug].verifier # Null)

Gated(t) ==
  /\ tab[t].at \in {"ready", "asking"} => Gate(t, tab[t].needsPassphrase)
  /\ tab[t].at = "asking" => (tab[t].passphrase = Null <=> ~tab[t].needsPassphrase)
  /\ tab[t].at = "loading" /\ answer[t] # Null /\ answer[t].status = "200" =>
       Gate(t, answer[t].gated)

Gates == \A t \in Readers : Gated(t)

\* With links undamaged: the ciphertext that a tab gets is the one that it opens.
Fit(t) ==
  /\ tab[t].at \in {"loading", "ready", "asking"} => tab[t].key = tab[t].slug
  /\ Carries(t) => answer[t].ciphertext
                     = EncryptSecret(tab[t].slug, tab[t].slug, tab[t].passphrase)

Fitting == \A t \in Readers : Fit(t)

ExchangeInv ==
  /\ Base /\ Owned /\ Told /\ NoOrphans /\ OnlyCopy /\ Gates
  /\ ~Damaged => Fitting /\ NotWasted
----------------------------------------------------------------------------
(* Slugs, proofs and sealed rows.                                          *)

LEMMA Numbers ==
  /\ 0 \in Slugs
  /\ Slugs \subseteq Nat
  /\ LinkKeys = Slugs \ {0}
BY BoundsAssumption DEF Slugs, LinkKeys

LEMMA Proofs ==
  ASSUME NEW p \in Passphrases \cup {Null}, NEW s \in Slugs
  PROVE  /\ Proof(p, s) \in Verifiers
         /\ Proof(p, s) = Null <=> p = Null
         /\ p # Null => Proof(p, s) = DeriveVerifier(p, s)
<1>1. CASE p = Null
  <2>1. Null \in Verifiers
    <3> DEFINE V == {DeriveVerifier(x, y) : x \in Passphrases, y \in Slugs}
    <3>1. Verifiers = V \cup {Null}
      BY DEF Verifiers
    <3> HIDE DEF V
    <3> QED
      BY <3>1
  <2> QED
    BY <1>1, <2>1 DEF Proof
<1>2. CASE p # Null
  <2>1. p \in Passphrases
    BY <1>2
  <2>2. DeriveVerifier(p, s) \in {DeriveVerifier(x, y) : x \in Passphrases, y \in Slugs}
    BY <2>1
  <2> QED
    BY <1>2, <2>1, <2>2, NullAssumption DEF Proof, Verifiers
<1> QED
  BY <1>1, <1>2

LEMMA Ciphers ==
  ASSUME NEW k \in LinkKeys, NEW s \in Slugs, NEW p \in Passphrases \cup {Null}
  PROVE  /\ EncryptSecret(k, s, p) \in Ciphertexts
         /\ EncryptSecret(k, s, p) # Null
         /\ EncryptSecret(k, s, p).aad = s
         /\ EncryptSecret(k, s, p).key.link = k
<1>1. EncryptSecret(k, s, p) \in Ciphertexts
  BY DEF Ciphertexts
<1> QED
  BY <1>1, NullAssumption DEF EncryptSecret, Encrypt, DeriveAesKey

LEMMA Sealing ==
  ASSUME NEW r, NEW s \in LinkKeys, Sealed(r, s)
  PROVE  /\ r.ciphertext \in Ciphertexts
         /\ r.ciphertext # Null
         /\ r.ciphertext.aad = s
         /\ r.ciphertext.key.link = s
         /\ r.verifier \in Verifiers
<1>1. s \in Slugs
  BY Numbers
<1>2. PICK p \in Passphrases \cup {Null} :
        r.ciphertext = EncryptSecret(s, s, p) /\ r.verifier = Proof(p, s)
  BY DEF Sealed
<1> QED
  BY <1>1, <1>2, Proofs, Ciphers

LEMMA NullIsNone ==
  /\ \A q \in Requests : q # Null
  /\ \A a \in Answers : a # Null
  /\ \A r \in Rows : r # Null
  /\ \A c \in Ciphertexts : c # Null
  /\ Stranger # Null
<1>1. Null \notin Requests /\ Null \notin Answers /\ Null \notin Ciphertexts
  BY NullAssumption
<1>2. Null \notin Rows \cup {Stranger}
  BY NullAssumption
<1> QED
  BY <1>1, <1>2
----------------------------------------------------------------------------
(* What the server does with a request, as far as the invariant goes.      *)

Nothing(q, a) ==
  /\ Untouched
  /\ a.ciphertext = Null
  /\ a.status # "201"
  /\ a.status = "200" =>
       /\ q.kind = "meta"
       /\ a.gated <=> rows[q.slug].verifier # Null

Stores(q, a) ==
  /\ q.kind = "post" /\ q.slug # 0
  /\ rows[q.slug] = Null
  /\ a.ciphertext = Null /\ a.status \in {"201", "500"}
  /\ rows' = [rows EXCEPT ![q.slug] = Row(q)]
  /\ UNCHANGED <<burned, expired>>

Counts(q, a) ==
  /\ q.kind = "consume" /\ q.slug # 0
  /\ rows[q.slug] # Null
  /\ a.ciphertext = Null /\ a.status \in {"403", "429", "500"}
  /\ \E row \in Rows :
       /\ rows' = [rows EXCEPT ![q.slug] = row]
       /\ row.ciphertext = rows[q.slug].ciphertext
       /\ row.verifier = rows[q.slug].verifier
  /\ UNCHANGED <<burned, expired>>

Burns(q, a) ==
  /\ q.kind = "consume" /\ q.slug # 0
  /\ rows[q.slug] # Null
  /\ rows[q.slug].verifier \in {Null, q.verifier}
  /\ \/ a.ciphertext = rows[q.slug].ciphertext /\ a.status = "200"
     \/ a.ciphertext = Null /\ a.status = "500"
  /\ rows' = [rows EXCEPT ![q.slug] = Null]
  /\ burned' = burned \cup {rows[q.slug].ciphertext}
  /\ UNCHANGED expired

Works(q, a) == Nothing(q, a) \/ Stores(q, a) \/ Counts(q, a) \/ Burns(q, a)

LEMMA SlugRow ==
  ASSUME Base, NEW s \in Slugs, s # 0, rows[s] # Null
  PROVE  rows[s] \in Rows
BY DEF Base, Typed

LEMMA OfferedSlugs ==
  ASSUME Base
  PROVE  Offered \subseteq LinkKeys
BY DEF Base, Typed, Offered, Links

LEMMA AnswerType ==
  ASSUME NEW status \in Statuses
  PROVE  /\ Answer(status) \in Answers
         /\ Answer(status).status = status
         /\ Answer(status).ciphertext = Null
BY DEF Answer, Delivery, Answers

LEMMA Outcomes ==
  ASSUME Base, NEW q \in Requests, Fits(q), NEW a, Handle(q, a)
  PROVE  a \in Answers /\ a.status # Lost /\ Works(q, a)
<1> DEFINE Goal == a \in Answers /\ a.status # Lost /\ Works(q, a)
<1>1. /\ q.slug \in Slugs
      /\ q.kind \in {"post", "meta", "consume"}
  BY DEF Requests
<1>2. rows[0] = Stranger /\ Stranger # Null
  BY NullIsNone DEF Base, Typed
<1>3. q.kind # "post" => q.slug # 0
  BY OfferedSlugs, Numbers DEF Fits
<1>4. \A st \in Statuses \ {"200", "201", Lost} : a = Answer(st) =>
        a \in Answers /\ a.ciphertext = Null /\ a.status = st
        /\ st # "200" /\ st # "201" /\ st # Lost
  BY AnswerType
<1>5. {"403", "404", "409", "429", "500", "refused"} \subseteq Statuses \ {"200", "201", Lost}
  BY DEF Statuses, Lost
<1>6. ASSUME NEW st \in {"403", "404", "409", "429", "500", "refused"},
             a = Answer(st), Untouched
      PROVE  Goal
  BY <1>4, <1>5, <1>6 DEF Works, Nothing
<1>7. ASSUME q.kind = "post", Post(q, a)
      PROVE  Goal
  <2>1. CASE a \in {Answer("refused"), Answer("500"), Answer("409")} /\ Untouched
    BY <1>6, <2>1
  <2>2. CASE /\ rows[q.slug] = Null
             /\ a \in {Answer("201"), Answer("500")}
             /\ rows' = [rows EXCEPT ![q.slug] = Row(q)]
             /\ UNCHANGED <<burned, expired>>
    <3>1. q.slug # 0
      BY <1>2, <2>2
    <3>2. "201" \in Statuses /\ "500" \in Statuses /\ Lost \notin {"201", "500"}
      BY DEF Statuses, Lost
    <3>3. a \in Answers /\ a.ciphertext = Null /\ a.status \in {"201", "500"}
      BY <2>2, <3>2, AnswerType
    <3> QED
      BY <1>7, <2>2, <3>1, <3>2, <3>3 DEF Works, Stores
  <2> QED
    BY <1>7, <2>1, <2>2 DEF Post
<1>8. ASSUME q.kind = "meta", Meta(q, a)
      PROVE  Goal
  <2>1. CASE rows[q.slug] = Null
    BY <1>6, <1>8, <2>1 DEF Meta
  <2>2. CASE rows[q.slug] # Null
    <3>1. a = Delivery("200", Null, rows[q.slug].verifier # Null) /\ Untouched
      BY <1>8, <2>2 DEF Meta
    <3>2. "200" \in Statuses /\ Lost # "200"
      BY DEF Statuses, Lost
    <3>3. /\ a \in Answers /\ a.ciphertext = Null /\ a.status = "200"
          /\ a.gated <=> rows[q.slug].verifier # Null
      BY <3>1, <3>2 DEF Delivery, Answers
    <3> QED
      BY <1>8, <3>1, <3>2, <3>3 DEF Works, Nothing
  <2> QED
    BY <2>1, <2>2
<1>9. ASSUME q.kind = "consume", Refuse(q, a)
      PROVE  Goal
  BY <1>6, <1>9 DEF Refuse
<1>10. ASSUME q.kind = "consume", Fail(q, a)
       PROVE  Goal
  <2> DEFINE row == rows[q.slug]
             last == row.failures + 1 >= MaxFailures
             fails == IF last THEN 0 ELSE row.failures + 1
             new == [row EXCEPT !.failures = IF last THEN 0 ELSE @ + 1,
                                !.locked = last]
  <2>1. q.slug # 0 /\ row # Null
    BY <1>3, <1>10 DEF Fail
  <2>2. row \in Rows
    BY <1>1, <2>1, SlugRow
  <2>3. new \in Rows /\ new.ciphertext = row.ciphertext /\ new.verifier = row.verifier
    <3>1. row.failures \in 0..MaxFailures - 1
      BY <2>2 DEF Rows
    <3>2. fails \in 0..MaxFailures - 1 /\ last \in BOOLEAN
      BY <3>1, BoundsAssumption
    <3>3. new = [row EXCEPT !.failures = fails, !.locked = last]
      BY <2>2 DEF Rows
    <3> HIDE DEF fails, last, new
    <3> QED
      BY <2>2, <3>2, <3>3 DEF Rows
  <2>4. rows' = [rows EXCEPT ![q.slug] = new] /\ UNCHANGED <<burned, expired>>
    BY <1>10 DEF Fail
  <2>5. \E st \in {"403", "429", "500"} : a = Answer(st)
    BY <1>10 DEF Fail
  <2>6. a \in Answers /\ a.ciphertext = Null /\ a.status \in {"403", "429", "500"}
        /\ a.status # Lost
    BY <1>4, <1>5, <2>5
  <2> HIDE DEF new
  <2> QED
    BY <1>10, <2>1, <2>3, <2>4, <2>6 DEF Works, Counts
<1>11. ASSUME q.kind = "consume", Burn(q, a)
       PROVE  Goal
  <2>1. q.slug # 0 /\ rows[q.slug] # Null
    BY <1>3, <1>11 DEF Burn
  <2>2. rows[q.slug] \in Rows
    BY <1>1, <2>1, SlugRow
  <2>3. rows[q.slug].ciphertext \in Ciphertexts
    BY <2>2 DEF Rows
  <2>4. /\ rows[q.slug].verifier \in {Null, q.verifier}
        /\ rows' = [rows EXCEPT ![q.slug] = Null]
        /\ burned' = burned \cup {rows[q.slug].ciphertext}
        /\ UNCHANGED expired
    BY <1>11 DEF Burn, WrongProof
  <2>5. CASE a = Answer("500")
    <3>1. a \in Answers /\ a.ciphertext = Null /\ a.status = "500" /\ a.status # Lost
      BY <1>4, <1>5, <2>5
    <3> QED
      BY <1>11, <2>1, <2>4, <3>1 DEF Works, Burns
  <2>6. CASE a = Delivery("200", rows[q.slug].ciphertext, rows[q.slug].verifier # Null)
    <3>1. "200" \in Statuses /\ Lost # "200"
      BY DEF Statuses, Lost
    <3>2. a \in Answers /\ a.ciphertext = rows[q.slug].ciphertext /\ a.status = "200"
      BY <2>3, <2>6, <3>1 DEF Delivery, Answers
    <3> QED
      BY <1>11, <2>1, <2>4, <3>1, <3>2 DEF Works, Burns
  <2> QED
    BY <1>11, <2>5, <2>6 DEF Burn
<1> QED
  BY <1>7, <1>8, <1>9, <1>10, <1>11 DEF Handle
----------------------------------------------------------------------------
(* The steps of more than one form, summed up.                             *)

Draws(p) ==
  /\ asked[p] # Null => answer[p] # Null /\ answer[p].status = "409"
  /\ \E q \in Requests, f \in Forms :
       /\ q.kind = "post" /\ f.at = "waiting"
       /\ q.slug = f.slug /\ f.key = draws + 1 /\ q.ciphertext.key.link = draws + 1
       /\ q.slug # 0 => q.slug = f.key /\ Sealed(q, q.slug)
       /\ asked' = [asked EXCEPT ![p] = q]
       /\ form' = [form EXCEPT ![p] = f]
  /\ answer' = [answer EXCEPT ![p] = Null]
  /\ draws < MaxDraws /\ draws' = draws + 1
  /\ UNCHANGED <<rows, late, broken, burned, expired, astray, shared, revealVars>>

Served(p) ==
  /\ asked[p] # Null /\ answer[p] = Null
  /\ \E a \in Answers :
       /\ a.status # Lost
       /\ Works(asked[p], a)
       /\ answer' = [answer EXCEPT ![p] = a]
       /\ astray' = IF a.status = "500" THEN astray \cup Effective(asked[p])
                                       ELSE astray
  /\ UNCHANGED <<asked, late, broken, createVars, revealVars>>

ServedLate ==
  /\ \E q \in late : (\E a \in Answers : Works(q, a)) /\ late' = late \ {q}
  /\ UNCHANGED <<asked, answer, broken, astray, createVars, revealVars>>

LEMMA Asking ==
  ASSUME Base, NEW p \in Pages, asked[p] # Null
  PROVE  asked[p] \in Requests /\ Fits(asked[p])
<1>1. asked[p] \in Requests
  BY DEF Base, Typed
<1>2. CASE p \in Senders
  <2>1. Posting(p)
    BY <1>2 DEF Base, Asked
  <2> QED
    BY <1>1, <2>1 DEF Posting, Fits
<1>3. CASE p \in Readers
  <2>1. Reading(p)
    BY <1>3 DEF Base, Asked
  <2>2. tab[p].at \in {"loading", "asking"}
    BY <2>1 DEF Reading, Consuming
  <2>3. tab[p].slug \in Offered
    BY <1>3, <2>2 DEF Base, Asked
  <2> QED
    BY <1>1, <2>1, <2>3 DEF Reading, Consuming, Fits
<1> QED
  BY <1>1, <1>2, <1>3, PagesAssumption

LEMMA Serving ==
  ASSUME Base, NEW p \in Pages, Serves(p)
  PROVE  Served(p)
<1>1. asked[p] \in Requests /\ Fits(asked[p])
  BY Asking DEF Serves, ServeRequest
<1>2. PICK a \in Replies(asked[p]) :
        /\ Handle(asked[p], a)
        /\ answer' = [answer EXCEPT ![p] = a]
        /\ astray' = IF a.status = "500" THEN astray \cup Effective(asked[p])
                                        ELSE astray
  BY DEF Serves, ServeRequest
<1>3. a \in Answers /\ a.status # Lost /\ Works(asked[p], a)
  BY <1>1, <1>2, Outcomes
<1> QED
  BY <1>2, <1>3 DEF Serves, ServeRequest, Served

LEMMA ServingLate ==
  ASSUME Base, ServeLate, UNCHANGED <<createVars, revealVars>>
  PROVE  ServedLate
<1>1. PICK q \in late : (\E a \in Replies(q) : Handle(q, a)) /\ late' = late \ {q}
  BY DEF ServeLate
<1>2. PICK a \in Replies(q) : Handle(q, a)
  BY <1>1
<1>3. q \in Requests /\ Fits(q)
  BY DEF Base, Typed, Asked
<1>4. a \in Answers /\ Works(q, a)
  BY <1>2, <1>3, Outcomes
<1> QED
  BY <1>1, <1>4 DEF ServeLate, ServedLate

LEMMA Encrypting ==
  ASSUME Base, NEW p \in Senders, NEW n \in Nat,
         NEW passphrase \in Passphrases \cup {Null},
         asked[p] # Null => answer[p] # Null /\ answer[p].status = "409",
         EncryptAndPost(p, n, passphrase),
         UNCHANGED <<rows, late, broken, burned, expired, astray, shared, revealVars>>
  PROVE  Draws(p)
<1> DEFINE key == draws + 1
<1>1. PICK slug \in {key, 0} :
        /\ asked' = [asked EXCEPT ![p] =
                       [kind |-> "post", slug |-> slug,
                        ciphertext |-> EncryptSecret(key, slug, passphrase),
                        verifier |-> Proof(passphrase, slug)]]
        /\ form' = [form EXCEPT ![p] =
                      [at |-> "waiting", attempt |-> n, slug |-> slug,
                       key |-> key, passphrase |-> passphrase]]
  BY DEF EncryptAndPost, Proof
<1>2. draws < MaxDraws /\ draws' = draws + 1 /\ answer' = [answer EXCEPT ![p] = Null]
  BY DEF EncryptAndPost
<1>3. key \in LinkKeys /\ slug \in Slugs
  BY <1>2, BoundsAssumption DEF Base, Typed, LinkKeys, Slugs
<1> DEFINE q == [kind |-> "post", slug |-> slug,
                 ciphertext |-> EncryptSecret(key, slug, passphrase),
                 verifier |-> Proof(passphrase, slug)]
           f == [at |-> "waiting", attempt |-> n, slug |-> slug,
                 key |-> key, passphrase |-> passphrase]
<1> HIDE DEF key
<1>4. q \in Requests
  <2>1. q.ciphertext \in Ciphertexts /\ q.verifier \in Verifiers
    BY <1>3, Ciphers, Proofs
  <2> QED
    BY <1>3, <2>1 DEF Requests
<1>5. f \in Forms
  BY <1>3 DEF Forms
<1>6. q.slug # 0 => q.slug = f.key /\ Sealed(q, q.slug)
  BY <1>1 DEF Sealed
<1>7. f.key = draws + 1 /\ q.ciphertext.key.link = draws + 1
  BY <1>3, Ciphers DEF key
<1>8. q.kind = "post" /\ f.at = "waiting" /\ q.slug = f.slug
  OBVIOUS
<1>9. asked' = [asked EXCEPT ![p] = q] /\ form' = [form EXCEPT ![p] = f]
  BY <1>1
<1> HIDE DEF q, f
<1> QED
  BY <1>2, <1>4, <1>5, <1>6, <1>7, <1>8, <1>9 DEF Draws

LEMMA Drawing ==
  ASSUME Base, NEW p \in Senders, Submit(p) \/ TryAgain(p), UNCHANGED revealVars
  PROVE  Draws(p)
<1>1. form[p] \in Forms
  BY DEF Base, Typed
<1>2. CASE Submit(p)
  <2>1. asked[p] = Null
    BY <1>2 DEF Submit, Base, Asked, Posting
  <2>2. PICK passphrase \in Passphrases \cup {Null} : EncryptAndPost(p, 1, passphrase)
    BY <1>2 DEF Submit
  <2> QED
    BY <1>2, <2>1, <2>2, Encrypting DEF Submit
<1>3. CASE TryAgain(p)
  <2>1. answer[p] # Null /\ answer[p].status = "409"
    BY <1>3 DEF TryAgain, Answered
  <2>2. form[p].attempt + 1 \in Nat /\ form[p].passphrase \in Passphrases \cup {Null}
    BY <1>1 DEF Forms
  <2> QED
    BY <1>3, <2>1, <2>2, Encrypting DEF TryAgain
<1> QED
  BY <1>2, <1>3
----------------------------------------------------------------------------
(* Base is kept.                                                           *)

LEMMA PostingKept ==
  ASSUME Base, NEW p \in Senders, asked[p] # Null,
         asked'[p] = asked[p], form'[p] = form[p], draws' \in Nat, draws <= draws'
  PROVE  Posting(p)'
<1>1. Posting(p) /\ draws \in Nat
  BY DEF Base, Typed, Asked
<1> QED
  BY <1>1 DEF Posting, Sealed

LEMMA ReadingKept ==
  ASSUME Base, NEW t \in Readers, asked[t] # Null,
         asked'[t] = asked[t], tab'[t] = tab[t]
  PROVE  Reading(t)'
<1>1. Reading(t)
  BY DEF Base, Asked
<1> QED
  BY <1>1 DEF Reading, Consuming

LEMMA FitsKept ==
  ASSUME NEW q, Fits(q), shared \subseteq shared'
  PROVE  Fits(q)'
BY DEF Fits, Offered, Sealed

\* What a step of a sender, or of a reader, leaves alone.
SenderFrame(p) ==
  /\ \A o \in Pages \ {p} : asked'[o] = asked[o] /\ answer'[o] = answer[o]
  /\ answer'[p] = Null
  /\ \A o \in Senders \ {p} : form'[o] = form[o]
  /\ shared \subseteq shared'
  /\ draws' \in Nat /\ draws <= draws'
  /\ UNCHANGED <<rows, late, broken, burned, expired, astray, revealVars>>

ReaderFrame(t) ==
  /\ \A o \in Pages \ {t} : asked'[o] = asked[o] /\ answer'[o] = answer[o]
  /\ answer'[t] = Null
  /\ \A o \in Readers \ {t} : tab'[o] = tab[o]
  /\ UNCHANGED <<rows, late, broken, burned, expired, astray, createVars>>

\* A sender's step keeps what Asked says of the others.
LEMMA SenderAsked ==
  ASSUME Base, NEW p \in Senders, SenderFrame(p),
         asked'[p] # Null => Posting(p)',
         form'[p].at = "waiting" => asked'[p] # Null,
         \A l \in shared' \ shared : l.key = l.slug /\ l.slug <= draws',
         Typed'
  PROVE  Asked'
<1>1. \A o \in Senders : asked'[o] # Null => Posting(o)'
  BY PostingKept, SendersAssumption DEF SenderFrame
<1>2. \A o \in Senders : form'[o].at = "waiting" => asked'[o] # Null
  BY SendersAssumption DEF SenderFrame, Base, Asked
<1>3. \A t \in Readers : t # p /\ t \in Pages
  BY PagesAssumption
<1>4. \A t \in Readers : asked'[t] # Null => Reading(t)'
  BY <1>3, ReadingKept DEF SenderFrame, revealVars
<1>5. \A o \in Pages : answer'[o] # Null => Replied(o)'
  BY DEF SenderFrame, Base, Asked, Replied
<1>6. \A q \in late' : Fits(q)'
  BY FitsKept DEF SenderFrame, Base, Asked
<1>7. \A s \in Slugs \ {0} : rows'[s] # Null => Sealed(rows'[s], s)
  BY DEF SenderFrame, Base, Asked, Sealed
<1>8. \A l \in shared' : l.key = l.slug /\ l.slug <= draws'
  <2>1. \A l \in shared : l.slug \in Nat /\ l.key = l.slug /\ l.slug <= draws
    BY Numbers DEF Base, Typed, Asked, Links
  <2>2. draws \in Nat /\ draws' \in Nat /\ draws <= draws'
    BY DEF Base, Typed, SenderFrame
  <2> QED
    BY <2>1, <2>2
<1>9. \A t \in Readers :
        tab'[t].at \in {"loading", "ready", "asking"} =>
          tab'[t].slug \in Offered' /\ tab'[t].key \in LinkKeys
  BY DEF SenderFrame, revealVars, Base, Asked, Offered
<1> QED
  BY <1>1, <1>2, <1>4, <1>5, <1>6, <1>7, <1>8, <1>9 DEF Asked

LEMMA ReaderAsked ==
  ASSUME Base, NEW t \in Readers, ReaderFrame(t),
         asked'[t] # Null => Reading(t)',
         tab'[t].at \in {"loading", "ready", "asking"} =>
           tab'[t].slug \in Offered /\ tab'[t].key \in LinkKeys
  PROVE  Asked'
<1>1. \A p \in Senders : p # t /\ p \in Pages
  BY PagesAssumption
<1>2. \A p \in Senders : asked'[p] # Null => Posting(p)'
  BY <1>1, PostingKept DEF ReaderFrame, createVars, Base, Typed
<1>3. \A p \in Senders : form'[p].at = "waiting" => asked'[p] # Null
  BY <1>1 DEF ReaderFrame, createVars, Base, Asked
<1>4. \A o \in Readers : asked'[o] # Null => Reading(o)'
  BY ReadingKept, ReadersAssumption DEF ReaderFrame
<1>5. \A o \in Pages : answer'[o] # Null => Replied(o)'
  BY DEF ReaderFrame, Base, Asked, Replied
<1>6. \A q \in late' : Fits(q)'
  BY FitsKept DEF ReaderFrame, createVars, Base, Asked
<1>7. \A s \in Slugs \ {0} : rows'[s] # Null => Sealed(rows'[s], s)
  BY DEF ReaderFrame, Base, Asked, Sealed
<1>8. \A l \in shared' : l.key = l.slug /\ l.slug <= draws'
  BY DEF ReaderFrame, createVars, Base, Asked
<1>9. \A o \in Readers :
        tab'[o].at \in {"loading", "ready", "asking"} =>
          tab'[o].slug \in Offered' /\ tab'[o].key \in LinkKeys
  BY DEF ReaderFrame, createVars, Base, Asked, Offered
<1> QED
  BY <1>2, <1>3, <1>4, <1>5, <1>6, <1>7, <1>8, <1>9 DEF Asked

LEMMA ServiceAsked ==
  ASSUME Base, UNCHANGED <<asked, createVars, revealVars>>,
         \A o \in Pages : answer'[o] # Null => Replied(o)',
         \A q \in late' : q \in late \/ \E p \in Pages : asked[p] # Null /\ q = asked[p],
         \A s \in Slugs \ {0} : rows'[s] # Null => Sealed(rows'[s], s)
  PROVE  Asked'
<1>1. \A p \in Senders : asked'[p] # Null => Posting(p)'
  BY PostingKept DEF createVars, Base, Typed
<1>2. \A p \in Senders : form'[p].at = "waiting" => asked'[p] # Null
  BY DEF createVars, Base, Asked
<1>3. \A t \in Readers : asked'[t] # Null => Reading(t)'
  BY ReadingKept DEF revealVars
<1>4. \A q \in late' : Fits(q)
  BY Asking DEF Base, Asked
<1>5. \A q \in late' : Fits(q)'
  BY <1>4, FitsKept DEF createVars
<1>6. \A l \in shared' : l.key = l.slug /\ l.slug <= draws'
  BY DEF createVars, Base, Asked
<1>7. \A t \in Readers :
        tab'[t].at \in {"loading", "ready", "asking"} =>
          tab'[t].slug \in Offered' /\ tab'[t].key \in LinkKeys
  BY DEF createVars, revealVars, Base, Asked, Offered
<1> QED
  BY <1>1, <1>2, <1>3, <1>5, <1>6, <1>7 DEF Asked

LEMMA WorksTyped ==
  ASSUME Base, NEW q \in Requests, Fits(q), NEW a, Works(q, a)
  PROVE  /\ rows' \in [Slugs -> Rows \cup {Stranger, Null}]
         /\ rows'[0] = Stranger
         /\ \A s \in Slugs \ {0} : rows'[s] \in Rows \cup {Null}
         /\ \A s \in Slugs \ {0} : rows'[s] # Null => Sealed(rows'[s], s)
         /\ burned' \in SUBSET Ciphertexts /\ expired' \in SUBSET Ciphertexts
<1>1. /\ rows \in [Slugs -> Rows \cup {Stranger, Null}]
      /\ rows[0] = Stranger
      /\ \A s \in Slugs \ {0} : rows[s] \in Rows \cup {Null}
      /\ \A s \in Slugs \ {0} : rows[s] # Null => Sealed(rows[s], s)
      /\ burned \in SUBSET Ciphertexts /\ expired \in SUBSET Ciphertexts
      /\ q.slug \in Slugs
  BY DEF Base, Typed, Asked, Requests
<1>2. CASE Nothing(q, a)
  BY <1>1, <1>2 DEF Nothing, Untouched
<1>3. ASSUME NEW row \in Rows, q.slug # 0, Sealed(row, q.slug),
             rows' = [rows EXCEPT ![q.slug] = row],
             UNCHANGED <<burned, expired>>
      PROVE  /\ rows' \in [Slugs -> Rows \cup {Stranger, Null}]
             /\ rows'[0] = Stranger
             /\ \A s \in Slugs \ {0} : rows'[s] \in Rows \cup {Null}
             /\ \A s \in Slugs \ {0} : rows'[s] # Null => Sealed(rows'[s], s)
             /\ burned' \in SUBSET Ciphertexts /\ expired' \in SUBSET Ciphertexts
  BY <1>1, <1>3, Numbers
<1>4. CASE Stores(q, a)
  <2>1. Sealed(q, q.slug) /\ q.slug \in LinkKeys
    BY <1>1, <1>4, Numbers DEF Stores, Fits
  <2>2. Row(q) \in Rows /\ Sealed(Row(q), q.slug)
    <3>1. q.ciphertext \in Ciphertexts /\ q.verifier \in Verifiers
      BY <2>1, Sealing
    <3> QED
      BY <2>1, <3>1, BoundsAssumption DEF Row, Rows, Sealed
  <2> QED
    BY <1>3, <1>4, <2>2 DEF Stores
<1>5. CASE Counts(q, a)
  <2>1. PICK row \in Rows :
          /\ rows' = [rows EXCEPT ![q.slug] = row]
          /\ row.ciphertext = rows[q.slug].ciphertext
          /\ row.verifier = rows[q.slug].verifier
    BY <1>5 DEF Counts
  <2>2. q.slug # 0 /\ Sealed(rows[q.slug], q.slug)
    BY <1>1, <1>5 DEF Counts
  <2>3. Sealed(row, q.slug)
    BY <2>1, <2>2 DEF Sealed
  <2> QED
    BY <1>3, <1>5, <2>1, <2>2, <2>3 DEF Counts
<1>6. CASE Burns(q, a)
  <2>1. rows[q.slug] \in Rows
    BY <1>1, <1>6 DEF Burns
  <2>2. rows[q.slug].ciphertext \in Ciphertexts
    BY <2>1 DEF Rows
  <2> QED
    BY <1>1, <1>6, <2>2, Numbers DEF Burns
<1> QED
  BY <1>2, <1>4, <1>5, <1>6 DEF Works

LEMMA CreateFrame ==
  ASSUME Base, NEW p \in Senders, Create(p)
  PROVE  SenderFrame(p)
<1>1. p \in Pages /\ draws \in Nat
  BY SendersAssumption DEF Base, Typed
<1>2. /\ asked \in [Pages -> Requests \cup {Null}]
      /\ answer \in [Pages -> Answers \cup {Null}]
      /\ form \in [Senders -> Forms]
  BY DEF Base, Typed
<1>3. CASE Submit(p) \/ TryAgain(p)
  <2>1. Draws(p)
    BY <1>3, Drawing DEF Create
  <2> QED
    BY <1>1, <1>2, <2>1 DEF Draws, SenderFrame
<1>4. CASE ShowLink(p)
  BY <1>1, <1>2, <1>4 DEF ShowLink, Settled, SenderFrame, Create, revealVars
<1>5. CASE FailSubmit(p)
  BY <1>1, <1>2, <1>5 DEF FailSubmit, Settled, SenderFrame, Create, revealVars
<1>6. CASE NewSecret(p)
  <2>1. answer[p] = Null
    BY <1>1, <1>6 DEF NewSecret, Base, Asked, Posting, Replied
  <2> QED
    BY <1>1, <1>2, <1>6, <2>1
    DEF NewSecret, service, network, SenderFrame, Create, revealVars
<1> QED
  BY <1>3, <1>4, <1>5, <1>6 DEF Create, CreateStep

LEMMA BaseCreate ==
  ASSUME Base, NEW p \in Senders, Create(p)
  PROVE  Base'
<1>1. SenderFrame(p)
  BY CreateFrame
<1>2. /\ asked \in [Pages -> Requests \cup {Null}]
      /\ answer \in [Pages -> Answers \cup {Null}]
      /\ form \in [Senders -> Forms]
      /\ form[p] \in Forms
      /\ draws \in Nat /\ draws <= MaxDraws
      /\ shared \in SUBSET Links
      /\ p \in Pages
  BY SendersAssumption DEF Base, Typed
<1>3. ASSUME /\ asked' \in [Pages -> Requests \cup {Null}]
             /\ answer' \in [Pages -> Answers \cup {Null}]
             /\ form' \in [Senders -> Forms]
             /\ draws' <= MaxDraws
             /\ shared' \in SUBSET Links
      PROVE  Typed'
  BY <1>1, <1>3 DEF Base, Typed, SenderFrame, revealVars
<1>4. CASE Submit(p) \/ TryAgain(p)
  <2>1. Draws(p)
    BY <1>4, Drawing DEF Create
  <2>2. PICK q \in Requests, f \in Forms :
          /\ q.kind = "post" /\ f.at = "waiting"
          /\ q.slug = f.slug /\ f.key = draws + 1
          /\ q.slug # 0 => q.slug = f.key /\ Sealed(q, q.slug)
          /\ asked' = [asked EXCEPT ![p] = q]
          /\ form' = [form EXCEPT ![p] = f]
    BY <2>1 DEF Draws
  <2>3. draws' = draws + 1 /\ draws < MaxDraws /\ shared' = shared
        /\ answer' = [answer EXCEPT ![p] = Null]
    BY <2>1 DEF Draws
  <2>4. Typed'
    BY <1>2, <1>3, <2>2, <2>3, BoundsAssumption
  <2>5. Posting(p)'
    BY <1>2, <2>2, <2>3 DEF Posting, Sealed
  <2>6. asked'[p] # Null
    BY <1>2, <2>2, NullIsNone
  <2> QED
    BY <1>1, <2>3, <2>4, <2>5, <2>6, SenderAsked DEF Base
<1>5. CASE ShowLink(p)
  <2>1. form[p].at = "waiting" /\ answer[p] # Null
    BY <1>5 DEF ShowLink, Answered
  <2>2. Posting(p)
    BY <1>2, <2>1 DEF Base, Asked
  <2>3. asked[p].slug # 0
    BY <1>2, <1>5, <2>1 DEF ShowLink, Answered, Base, Asked, Replied
  <2>4. PICK k \in LinkKeys : k = form[p].slug /\ k = form[p].key /\ k <= draws
    BY <1>2, <2>2, <2>3, BoundsAssumption DEF Posting, LinkKeys
  <2>5. shared' = shared \cup {[slug |-> k, key |-> k]}
    BY <1>5, <2>4 DEF ShowLink, Link
  <2>6. /\ asked' = [asked EXCEPT ![p] = Null]
        /\ answer' = [answer EXCEPT ![p] = Null]
        /\ form' = [form EXCEPT ![p].at = "result"]
        /\ draws' = draws
    BY <1>5 DEF ShowLink, Settled
  <2>7. [form[p] EXCEPT !.at = "result"] \in Forms
    BY <1>2 DEF Forms
  <2>8. Typed'
    <3>1. form' \in [Senders -> Forms]
      BY <1>2, <2>6, <2>7
    <3>2. shared' \in SUBSET Links
      BY <1>2, <2>5 DEF Links
    <3> QED
      BY <1>2, <1>3, <2>6, <3>1, <3>2
  <2>9. asked'[p] = Null /\ form'[p].at # "waiting"
    BY <1>2, <2>6, <2>7
  <2>10. \A l \in shared' \ shared : l.key = l.slug /\ l.slug <= draws'
    BY <2>4, <2>5, <2>6
  <2> QED
    BY <1>1, <2>8, <2>9, <2>10, SenderAsked DEF Base
<1>6. CASE FailSubmit(p)
  <2>1. /\ asked' = [asked EXCEPT ![p] = Null]
        /\ answer' = [answer EXCEPT ![p] = Null]
        /\ form' = [form EXCEPT ![p] = IdleForm]
        /\ draws' = draws /\ shared' = shared
    BY <1>6 DEF FailSubmit, Settled
  <2>2. IdleForm \in Forms /\ IdleForm.at # "waiting"
    BY Numbers DEF IdleForm, Forms
  <2>3. Typed'
    BY <1>2, <1>3, <2>1, <2>2
  <2>4. asked'[p] = Null /\ form'[p].at # "waiting"
    BY <1>2, <2>1, <2>2
  <2> QED
    BY <1>1, <2>1, <2>3, <2>4, SenderAsked DEF Base
<1>7. CASE NewSecret(p)
  <2>1. /\ UNCHANGED <<asked, answer, draws, shared>>
        /\ form' = [form EXCEPT ![p] = IdleForm]
    BY <1>7 DEF NewSecret, service, network
  <2>2. IdleForm \in Forms /\ IdleForm.at # "waiting"
    BY Numbers DEF IdleForm, Forms
  <2>3. Typed'
    BY <1>2, <1>3, <2>1, <2>2
  <2>4. asked[p] = Null
    BY <1>7 DEF NewSecret, Base, Asked, Posting
  <2>5. asked'[p] = Null /\ form'[p].at # "waiting"
    BY <1>2, <2>1, <2>2, <2>4
  <2> QED
    BY <1>1, <2>1, <2>3, <2>5, SenderAsked DEF Base
<1> QED
  BY <1>4, <1>5, <1>6, <1>7 DEF Create, CreateStep

LEMMA ReceivedLinks ==
  ASSUME Base, NEW link \in Received
  PROVE  /\ link.slug \in Offered /\ link.slug \in Slugs
         /\ link.key \in LinkKeys \cup {Null}
         /\ ~Damaged => link.key = link.slug
<1>1. \A l \in shared : l \in Links /\ l.key = l.slug
  BY DEF Base, Typed, Asked
<1>2. CASE Damaged
  <2>1. PICK l \in shared : \E k \in LinkKeys \cup {Null} : link = Link(l.slug, k)
    BY <1>2 DEF Received
  <2> QED
    BY <1>1, <1>2, <2>1, Numbers DEF Link, Links, Offered
<1>3. CASE ~Damaged
  BY <1>1, <1>3, Numbers DEF Received, Links, Offered
<1> QED
  BY <1>2, <1>3

LEMMA ReadFrame ==
  ASSUME Base, NEW t \in Readers, OpenLink(t) \/ Press(t) \/ Handles(t)
  PROVE  ReaderFrame(t)
<1>1. /\ asked \in [Pages -> Requests \cup {Null}]
      /\ answer \in [Pages -> Answers \cup {Null}]
      /\ tab \in [Readers -> Tabs]
      /\ t \in Pages
  BY ReadersAssumption DEF Base, Typed
<1>2. CASE OpenLink(t)
  <2>1. answer[t] = Null
    BY <1>1, <1>2 DEF OpenLink, Open, Quiet, Base, Asked, Replied
  <2> QED
    BY <1>1, <1>2, <2>1 DEF OpenLink, Open, Ask, ReaderFrame, createVars
<1>3. CASE Press(t)
  BY <1>1, <1>3 DEF Press, Reveal, Ask, ReaderFrame, createVars
<1>4. CASE MetaArrives(t) /\ UNCHANGED createVars
  BY <1>1, <1>4 DEF MetaArrives, Done, ReaderFrame, createVars
<1>5. CASE Refused(t) /\ UNCHANGED createVars
  BY <1>1, <1>5 DEF Refused, Done, ReaderFrame, createVars
<1>6. CASE Decrypt(t) /\ UNCHANGED createVars
  BY <1>1, <1>6 DEF Decrypt, Done, ReaderFrame, createVars
<1>7. CASE Unhandled(t) /\ UNCHANGED createVars
  BY <1>1, <1>7 DEF Unhandled, Done, ReaderFrame, createVars
<1> QED
  BY <1>2, <1>3, <1>4, <1>5, <1>6, <1>7 DEF Handles, Handler

LEMMA ReaderTyped ==
  ASSUME Base, NEW t \in Readers, ReaderFrame(t),
         asked' \in [Pages -> Requests \cup {Null}],
         answer' \in [Pages -> Answers \cup {Null}],
         tab' \in [Readers -> Tabs],
         read' \in SUBSET Ciphertexts
  PROVE  Typed'
BY DEF Base, Typed, ReaderFrame, createVars

\* What is shown opens, so it is a ciphertext.
LEMMA Opening ==
  ASSUME Base, NEW t \in Readers, tab[t].at = "asking",
         Decrypts(answer[t].ciphertext, tab[t].key, tab[t].slug, tab[t].passphrase)
  PROVE  /\ answer[t].ciphertext
              = EncryptSecret(tab[t].key, tab[t].slug, tab[t].passphrase)
         /\ answer[t].ciphertext \in Ciphertexts
         /\ answer[t].ciphertext # Null
<1>1. tab[t] \in Tabs /\ tab[t].key \in LinkKeys
  BY DEF Base, Typed, Asked
<1>2. tab[t].slug \in Slugs /\ tab[t].passphrase \in Passphrases \cup {Null}
  BY <1>1 DEF Tabs
<1>3. answer[t].ciphertext
        = EncryptSecret(tab[t].key, tab[t].slug, tab[t].passphrase)
  BY DEF Decrypts, Opens, EncryptSecret
<1> QED
  BY <1>1, <1>2, <1>3, Ciphers

LEMMA BaseRead ==
  ASSUME Base, NEW t \in Readers, OpenLink(t) \/ Press(t) \/ Handles(t)
  PROVE  Base'
<1>1. ReaderFrame(t)
  BY ReadFrame
<1>2. /\ asked \in [Pages -> Requests \cup {Null}]
      /\ answer \in [Pages -> Answers \cup {Null}]
      /\ tab \in [Readers -> Tabs]
      /\ tab[t] \in Tabs
      /\ read \in SUBSET Ciphertexts
      /\ t \in Pages
  BY ReadersAssumption DEF Base, Typed
<1>3. tab[t].at \in {"loading", "ready", "asking"} =>
        tab[t].slug \in Offered /\ tab[t].key \in LinkKeys
  BY DEF Base, Asked
<1>4. \A at \in {"closed", "404", "secret", "locked"} :
        [Closed EXCEPT !.at = at] \in Tabs /\ [Closed EXCEPT !.at = at].at = at
  BY Numbers DEF Closed, Tabs
\* A page that asks.
<1>5. ASSUME NEW q \in Requests, NEW x \in Tabs,
             asked' = [asked EXCEPT ![t] = q], answer' = [answer EXCEPT ![t] = Null],
             tab' = [tab EXCEPT ![t] = x], read' = read,
             q.slug = x.slug, x.slug \in Offered, x.key \in LinkKeys,
             \/ q.kind = "meta" /\ x.at = "loading"
             \/ /\ q.kind = "consume" /\ x.at = "asking"
                /\ q.verifier = Proof(x.passphrase, x.slug)
      PROVE  Base'
  <2>1. Typed'
    BY <1>1, <1>2, <1>5, ReaderTyped
  <2>2. asked'[t] = q /\ tab'[t] = x
    BY <1>2, <1>5
  <2>3. Reading(t)'
    BY <1>5, <2>2 DEF Reading, Consuming
  <2> QED
    BY <1>1, <1>5, <2>1, <2>2, <2>3, ReaderAsked DEF Base
\* A page that asks no more.
<1>6. ASSUME NEW x \in Tabs,
             asked' = [asked EXCEPT ![t] = Null], answer' = [answer EXCEPT ![t] = Null],
             tab' = [tab EXCEPT ![t] = x], read' \in SUBSET Ciphertexts,
             x.at \in {"loading", "ready", "asking"} =>
               x.slug \in Offered /\ x.key \in LinkKeys
      PROVE  Base'
  <2>1. Typed'
    BY <1>1, <1>2, <1>6, ReaderTyped
  <2>2. asked'[t] = Null /\ tab'[t] = x
    BY <1>2, <1>6
  <2> QED
    BY <1>1, <1>6, <2>1, <2>2, ReaderAsked DEF Base
<1>7. CASE OpenLink(t)
  <2>1. PICK link \in Received : Open(t, link)
    BY <1>7 DEF OpenLink
  <2>2. /\ link.slug \in Offered /\ link.slug \in Slugs
        /\ link.key \in LinkKeys \cup {Null}
    BY <2>1, ReceivedLinks
  <2>3. CASE rows[link.slug] = Null \/ link.key = Null
    <3>1. asked[t] = Null /\ answer[t] = Null
      BY <1>2, <2>1 DEF Open, Quiet, Base, Asked, Replied
    <3>2. asked' = asked /\ answer' = answer /\ read' = read
          /\ tab' = [tab EXCEPT ![t] = [Closed EXCEPT !.at = "404"]]
      BY <2>1, <2>3 DEF Open
    <3>3. asked' = [asked EXCEPT ![t] = Null] /\ answer' = [answer EXCEPT ![t] = Null]
      BY <1>2, <3>1, <3>2
    <3> QED
      BY <1>2, <1>4, <1>6, <3>2, <3>3
  <2>4. CASE ~(rows[link.slug] = Null \/ link.key = Null)
    <3> DEFINE x == [Closed EXCEPT !.at = "loading", !.slug = link.slug, !.key = link.key]
               q == [kind |-> "meta", slug |-> link.slug, ciphertext |-> Null,
                     verifier |-> Null]
    <3>1. asked' = [asked EXCEPT ![t] = q] /\ answer' = [answer EXCEPT ![t] = Null]
          /\ tab' = [tab EXCEPT ![t] = x] /\ read' = read
      BY <2>1, <2>4 DEF Open, Ask
    <3>2. x \in Tabs /\ x.slug = link.slug /\ x.key = link.key /\ x.at = "loading"
      BY <2>2 DEF Closed, Tabs
    <3>3. q \in Requests /\ q.slug = link.slug /\ q.kind = "meta"
      <4>1. Null \in Verifiers
        BY <2>2, Proofs DEF Proof
      <4> QED
        BY <2>2, <4>1 DEF Requests
    <3>4. link.key \in LinkKeys
      BY <2>2, <2>4
    <3> HIDE DEF x, q
    <3> QED
      BY <1>5, <2>2, <3>1, <3>2, <3>3, <3>4
  <2> QED
    BY <2>3, <2>4
<1>8. CASE Press(t)
  <2>1. PICK passphrase \in Passphrases \cup {Null} :
          /\ tab' = [tab EXCEPT ![t].at = "asking", ![t].passphrase = passphrase]
          /\ Ask(t, "consume", tab[t].slug, Proof(passphrase, tab[t].slug))
    BY <1>8 DEF Press, Reveal, Proof
  <2> DEFINE x == [tab[t] EXCEPT !.at = "asking", !.passphrase = passphrase]
             q == [kind |-> "consume", slug |-> tab[t].slug, ciphertext |-> Null,
                   verifier |-> Proof(passphrase, tab[t].slug)]
  <2>2. tab[t].slug \in Slugs /\ tab[t].at = "ready" /\ read' = read
    BY <1>2, <1>8 DEF Tabs, Press, Reveal
  <2>3. asked' = [asked EXCEPT ![t] = q] /\ answer' = [answer EXCEPT ![t] = Null]
    BY <2>1 DEF Ask
  <2>4. tab' = [tab EXCEPT ![t] = x]
    BY <1>2, <2>1 DEF Tabs
  <2>5. /\ x \in Tabs /\ x.at = "asking"
        /\ x.slug = tab[t].slug /\ x.key = tab[t].key /\ x.passphrase = passphrase
    BY <1>2 DEF Tabs
  <2>6. Proof(passphrase, tab[t].slug) \in Verifiers
    BY <2>2, Proofs
  <2>7. q \in Requests /\ q.slug = tab[t].slug /\ q.kind = "consume"
        /\ q.verifier = Proof(passphrase, tab[t].slug)
    BY <2>2, <2>6 DEF Requests
  <2> HIDE DEF x, q
  <2> QED
    BY <1>3, <1>5, <2>2, <2>3, <2>4, <2>5, <2>7
<1>9. CASE MetaArrives(t)
  <2>1. asked' = [asked EXCEPT ![t] = Null] /\ answer' = [answer EXCEPT ![t] = Null]
        /\ read' = read
    BY <1>9 DEF MetaArrives, Done
  <2>2. CASE /\ Has(t, "loading", {"200"})
             /\ tab' = [tab EXCEPT ![t].at = "ready",
                                   ![t].needsPassphrase = answer[t].gated]
    <3> DEFINE x == [tab[t] EXCEPT !.at = "ready", !.needsPassphrase = answer[t].gated]
    <3>1. answer[t].gated \in BOOLEAN /\ tab[t].at = "loading"
      BY <1>2, <2>2 DEF Has, Answers
    <3>2. x \in Tabs /\ x.slug = tab[t].slug /\ x.key = tab[t].key
      BY <1>2, <3>1 DEF Tabs
    <3>3. tab' = [tab EXCEPT ![t] = x]
      BY <1>2, <2>2 DEF Tabs
    <3> HIDE DEF x
    <3> QED
      BY <1>2, <1>3, <1>6, <2>1, <3>1, <3>2, <3>3
  <2>3. CASE tab' = [tab EXCEPT ![t] = [Closed EXCEPT !.at = "404"]]
    BY <1>2, <1>4, <1>6, <2>1, <2>3
  <2> QED
    BY <1>9, <2>2, <2>3 DEF MetaArrives
<1>10. CASE Refused(t)
  <2>1. asked' = [asked EXCEPT ![t] = Null] /\ answer' = [answer EXCEPT ![t] = Null]
        /\ read' = read
    BY <1>10 DEF Refused, Done
  <2>2. CASE /\ Has(t, "asking", {"403"})
             /\ tab' = [tab EXCEPT ![t].at = "ready", ![t].passphrase = Null]
    <3> DEFINE x == [tab[t] EXCEPT !.at = "ready", !.passphrase = Null]
    <3>1. tab[t].at = "asking"
      BY <2>2 DEF Has
    <3>2. x \in Tabs /\ x.slug = tab[t].slug /\ x.key = tab[t].key
      BY <1>2 DEF Tabs
    <3>3. tab' = [tab EXCEPT ![t] = x]
      BY <1>2, <2>2 DEF Tabs
    <3> HIDE DEF x
    <3> QED
      BY <1>2, <1>3, <1>6, <2>1, <3>1, <3>2, <3>3
  <2>3. CASE \/ tab' = [tab EXCEPT ![t] = [Closed EXCEPT !.at = "404"]]
             \/ tab' = [tab EXCEPT ![t] = [Closed EXCEPT !.at = "locked"]]
    BY <1>2, <1>4, <1>6, <2>1, <2>3
  <2> QED
    BY <1>10, <2>2, <2>3 DEF Refused
<1>11. CASE Decrypt(t)
  <2>1. asked' = [asked EXCEPT ![t] = Null] /\ answer' = [answer EXCEPT ![t] = Null]
        /\ tab[t].at = "asking"
    BY <1>11 DEF Decrypt, Done, Has
  <2>2. read' \in SUBSET Ciphertexts
    BY <1>2, <1>11, <2>1, Opening DEF Decrypt
  <2>3. \/ tab' = [tab EXCEPT ![t] = [Closed EXCEPT !.at = "404"]]
        \/ tab' = [tab EXCEPT ![t] = [Closed EXCEPT !.at = "secret"]]
    BY <1>11 DEF Decrypt
  <2> QED
    BY <1>2, <1>4, <1>6, <2>1, <2>2, <2>3
<1>12. CASE Unhandled(t)
  <2>1. asked' = [asked EXCEPT ![t] = Null] /\ answer' = [answer EXCEPT ![t] = Null]
        /\ read' = read /\ tab' = [tab EXCEPT ![t] = tab[t]]
    BY <1>2, <1>12 DEF Unhandled, Done
  <2> QED
    BY <1>2, <1>3, <1>6, <2>1
<1> QED
  BY <1>7, <1>8, <1>9, <1>10, <1>11, <1>12 DEF Handles, Handler

LEMMA ServiceTyped ==
  ASSUME Base, UNCHANGED <<asked, createVars, revealVars>>,
         /\ rows' \in [Slugs -> Rows \cup {Stranger, Null}]
         /\ rows'[0] = Stranger
         /\ \A s \in Slugs \ {0} : rows'[s] \in Rows \cup {Null},
         answer' \in [Pages -> Answers \cup {Null}],
         late' \in SUBSET Requests, astray' \in SUBSET Requests,
         broken' \in Nat,
         burned' \in SUBSET Ciphertexts, expired' \in SUBSET Ciphertexts
  PROVE  Typed'
BY DEF Base, Typed, createVars, revealVars

LEMMA EffectiveSelf ==
  ASSUME NEW q
  PROVE  Effective(q) \subseteq {q} /\ (q.kind # "meta" => q \in Effective(q))
BY DEF Effective

LEMMA BaseServed ==
  ASSUME Base, NEW p \in Pages, Serves(p)
  PROVE  Base'
<1>1. Served(p)
  BY Serving
<1>2. PICK a \in Answers :
        /\ Works(asked[p], a)
        /\ answer' = [answer EXCEPT ![p] = a]
        /\ astray' = IF a.status = "500" THEN astray \cup Effective(asked[p])
                                        ELSE astray
  BY <1>1 DEF Served
<1>3. /\ UNCHANGED <<asked, late, broken, createVars, revealVars>>
      /\ asked[p] # Null
  BY <1>1 DEF Served
<1>4. asked[p] \in Requests /\ Fits(asked[p])
  BY <1>3, Asking
<1>5. Typed'
  <2>1. answer' \in [Pages -> Answers \cup {Null}]
    BY <1>2 DEF Base, Typed
  <2>2. late' \in SUBSET Requests /\ broken' \in Nat
    BY <1>3 DEF Base, Typed
  <2>3. astray' \in SUBSET Requests
    <3>1. astray \in SUBSET Requests
      BY DEF Base, Typed
    <3> QED
      BY <1>2, <1>4, <3>1, EffectiveSelf
  <2> QED
    BY <1>2, <1>3, <1>4, <2>1, <2>2, <2>3, WorksTyped, ServiceTyped
<1>6. Replied(p)'
  BY <1>2, <1>3 DEF Base, Typed, Works, Nothing, Stores, Counts, Burns, Replied
<1>7. \A o \in Pages : answer'[o] # Null => Replied(o)'
  BY <1>2, <1>3, <1>6 DEF Base, Typed, Asked, Replied
<1>8. \A s \in Slugs \ {0} : rows'[s] # Null => Sealed(rows'[s], s)
  BY <1>2, <1>4, WorksTyped
<1>9. Asked'
  BY <1>3, <1>7, <1>8, ServiceAsked
<1> QED
  BY <1>5, <1>9 DEF Base

LEMMA BaseLate ==
  ASSUME Base, ServeLate, UNCHANGED <<createVars, revealVars>>
  PROVE  Base'
<1>1. ServedLate
  BY ServingLate
<1>2. PICK q \in late : (\E a \in Answers : Works(q, a)) /\ late' = late \ {q}
  BY <1>1 DEF ServedLate
<1>3. PICK a \in Answers : Works(q, a)
  BY <1>2
<1>4. q \in Requests /\ Fits(q)
  BY DEF Base, Typed, Asked
<1>5. UNCHANGED <<asked, answer, broken, astray, createVars, revealVars>>
  BY <1>1 DEF ServedLate
<1>6. Typed'
  <2>1. /\ answer' \in [Pages -> Answers \cup {Null}]
        /\ late' \in SUBSET Requests /\ astray' \in SUBSET Requests
        /\ broken' \in Nat
    BY <1>2, <1>5 DEF Base, Typed
  <2> QED
    BY <1>3, <1>4, <1>5, <2>1, WorksTyped, ServiceTyped
<1>7. \A o \in Pages : answer'[o] # Null => Replied(o)'
  BY <1>5 DEF Base, Asked, Replied
<1>8. \A s \in Slugs \ {0} : rows'[s] # Null => Sealed(rows'[s], s)
  BY <1>3, <1>4, WorksTyped
<1>9. Asked'
  BY <1>2, <1>5, <1>7, <1>8, ServiceAsked
<1> QED
  BY <1>6, <1>9 DEF Base

LEMMA BaseBreak ==
  ASSUME Base, NEW p \in Pages, Break(p), UNCHANGED <<createVars, revealVars>>
  PROVE  Base'
<1>1. /\ asked[p] # Null /\ broken' = broken + 1
      /\ answer' = [answer EXCEPT ![p] = Answer(Lost)]
      /\ astray' = astray \cup Effective(asked[p])
      /\ late' = late \/ late' = late \cup Effective(asked[p])
      /\ UNCHANGED <<rows, asked, burned, expired>>
  BY DEF Break
<1>2. asked[p] \in Requests
  BY <1>1, Asking
<1>3. Answer(Lost) \in Answers /\ Answer(Lost).status # "201"
  BY AnswerType DEF Statuses, Lost
<1>4. Typed'
  <2>1. /\ answer \in [Pages -> Answers \cup {Null}]
        /\ late \in SUBSET Requests /\ astray \in SUBSET Requests
        /\ broken \in Nat
        /\ rows \in [Slugs -> Rows \cup {Stranger, Null}]
        /\ rows[0] = Stranger
        /\ \A s \in Slugs \ {0} : rows[s] \in Rows \cup {Null}
        /\ burned \in SUBSET Ciphertexts /\ expired \in SUBSET Ciphertexts
    BY DEF Base, Typed
  <2>2. late' \in SUBSET Requests /\ astray' \in SUBSET Requests
    BY <1>1, <1>2, <2>1, EffectiveSelf
  <2>3. answer' \in [Pages -> Answers \cup {Null}] /\ broken' \in Nat
    BY <1>1, <1>3, <2>1
  <2> QED
    BY <1>1, <2>1, <2>2, <2>3, ServiceTyped
<1>5. \A o \in Pages : answer'[o] # Null => Replied(o)'
  BY <1>1, <1>3 DEF Base, Typed, Asked, Replied
<1>6. \A q \in late' : q \in late \/ \E o \in Pages : asked[o] # Null /\ q = asked[o]
  BY <1>1, EffectiveSelf
<1>7. \A s \in Slugs \ {0} : rows'[s] # Null => Sealed(rows'[s], s)
  BY <1>1 DEF Base, Asked
<1>8. Asked'
  BY <1>1, <1>5, <1>6, <1>7, ServiceAsked
<1> QED
  BY <1>4, <1>8 DEF Base

\* Time takes a row, or its lock.
LEMMA BaseTime ==
  ASSUME Base, NEW s \in Slugs, Expire(s) \/ Unlock(s),
         UNCHANGED <<createVars, revealVars>>
  PROVE  Base'
<1>1. /\ UNCHANGED <<asked, answer, late, broken, burned, astray>>
  BY DEF Expire, Unlock, network
<1>2. /\ rows \in [Slugs -> Rows \cup {Stranger, Null}]
      /\ rows[0] = Stranger
      /\ \A x \in Slugs \ {0} : rows[x] \in Rows \cup {Null}
      /\ \A x \in Slugs \ {0} : rows[x] # Null => Sealed(rows[x], x)
      /\ burned \in SUBSET Ciphertexts /\ expired \in SUBSET Ciphertexts
  BY DEF Base, Typed, Asked
<1>3. /\ rows' \in [Slugs -> Rows \cup {Stranger, Null}]
      /\ rows'[0] = Stranger
      /\ \A x \in Slugs \ {0} : rows'[x] \in Rows \cup {Null}
      /\ \A x \in Slugs \ {0} : rows'[x] # Null => Sealed(rows'[x], x)
      /\ expired' \in SUBSET Ciphertexts
  <2>1. CASE Expire(s)
    <3>1. s # 0 /\ rows[s] # Null /\ rows' = [rows EXCEPT ![s] = Null]
          /\ expired' = expired \cup {rows[s].ciphertext}
      BY <2>1 DEF Expire
    <3>2. rows[s].ciphertext \in Ciphertexts
      BY <1>2, <3>1 DEF Rows
    <3> QED
      BY <1>2, <3>1, <3>2, Numbers
  <2>2. CASE Unlock(s)
    <3>1. /\ rows[s] # Null /\ rows[s].locked /\ expired' = expired
          /\ rows' = [rows EXCEPT ![s].locked = FALSE]
      BY <2>2 DEF Unlock
    <3> DEFINE row == [rows[s] EXCEPT !.locked = FALSE]
    <3>2. s # 0
      BY <1>2, <3>1 DEF Stranger
    <3>3. rows[s] \in Rows /\ Sealed(rows[s], s)
      BY <1>2, <3>1, <3>2
    <3>4. row \in Rows /\ row.ciphertext = rows[s].ciphertext
          /\ row.verifier = rows[s].verifier
      BY <3>3 DEF Rows
    <3>5. Sealed(row, s)
      BY <3>3, <3>4 DEF Sealed
    <3>6. rows' = [rows EXCEPT ![s] = row]
      BY <3>1
    <3> HIDE DEF row
    <3> QED
      BY <1>2, <3>1, <3>2, <3>4, <3>5, <3>6, Numbers
  <2> QED
    BY <2>1, <2>2
<1>4. Typed'
  BY <1>1, <1>2, <1>3, ServiceTyped DEF Base, Typed
<1>5. \A o \in Pages : answer'[o] # Null => Replied(o)'
  BY <1>1 DEF Base, Asked, Replied
<1>6. Asked'
  BY <1>1, <1>3, <1>5, ServiceAsked
<1> QED
  BY <1>4, <1>6 DEF Base

LEMMA BaseInit == Init => Base
<1> SUFFICES ASSUME Init PROVE Base
  OBVIOUS
<1> USE DEF Init, ServiceInit, CreateInit, RevealInit
<1>1. IdleForm \in Forms /\ IdleForm.at = "form"
  BY Numbers DEF IdleForm, Forms
<1>2. Closed \in Tabs /\ Closed.at = "closed"
  BY Numbers DEF Closed, Tabs
<1>3. \A s \in Slugs : rows[s] = IF s = 0 THEN Stranger ELSE Null
  OBVIOUS
<1>4. Typed
  BY <1>1, <1>2, <1>3, Numbers, BoundsAssumption DEF Typed
<1>5. \A p \in Pages : asked[p] = Null /\ answer[p] = Null
  OBVIOUS
<1>6. Asked
  BY <1>1, <1>2, <1>3, <1>5, PagesAssumption DEF Asked
<1> QED
  BY <1>4, <1>6 DEF Base

LEMMA BaseNext == Base /\ [Next]_vars => Base'
<1> SUFFICES ASSUME Base, [Next]_vars PROVE Base'
  OBVIOUS
<1>1. ASSUME NEW p \in Senders, Create(p)
      PROVE  Base'
  BY <1>1, BaseCreate
<1>2. ASSUME NEW t \in Readers, OpenLink(t) \/ Press(t) \/ Handles(t)
      PROVE  Base'
  BY <1>2, BaseRead
<1>3. ASSUME NEW p \in Pages, Serves(p)
      PROVE  Base'
  BY <1>3, BaseServed
<1>4. CASE Outside
  BY <1>4, BaseBreak, BaseLate, BaseTime DEF Outside
<1>5. CASE UNCHANGED vars
  <2>1. UNCHANGED <<rows, asked, answer, late, broken, burned, expired, astray,
                    createVars, revealVars>>
    BY <1>5 DEF vars, service, network
  <2>2. /\ rows \in [Slugs -> Rows \cup {Stranger, Null}]
        /\ rows[0] = Stranger
        /\ \A s \in Slugs \ {0} : rows[s] \in Rows \cup {Null}
        /\ \A s \in Slugs \ {0} : rows[s] # Null => Sealed(rows[s], s)
    BY DEF Base, Typed, Asked
  <2>3. Typed'
    BY <2>1, <2>2, ServiceTyped DEF Base, Typed
  <2>4. \A o \in Pages : answer'[o] # Null => Replied(o)'
    BY <2>1 DEF Base, Asked, Replied
  <2>5. Asked'
    BY <2>1, <2>2, <2>4, ServiceAsked
  <2> QED
    BY <2>3, <2>5 DEF Base
<1> QED
  BY <1>1, <1>2, <1>3, <1>4, <1>5 DEF Next

\* Every row, request and answer is of its type: a row keeps its ciphertext, its
\* verifier and a failure count below MAX_ATTEMPTS, and a tab has been told
\* whether there is a passphrase, for any number of pages and broken connections.
THEOREM WellTyped == Spec => []TypeOK
<1>1. Base => TypeOK
  BY DEF Base, Typed, TypeOK, Tabs
<1> QED
  BY <1>1, BaseInit, BaseNext, PTL DEF Spec
----------------------------------------------------------------------------
(* A wrong passphrase burns nothing.                                       *)

LEMMA ProvenBurn ==
  ASSUME Base, NEW q \in Requests, Fits(q), NEW a, Works(q, a),
         NEW c \in burned' \ burned
  PROVE  /\ q # Null /\ q.kind = "consume"
         /\ \/ c.key.salt = Null
            \/ q.verifier = DeriveVerifier(c.key.salt[1], c.aad)
<1>1. Burns(q, a)
  BY DEF Works, Nothing, Untouched, Stores, Counts
<1> DEFINE s == q.slug
<1>2. s \in LinkKeys /\ s \in Slugs
  BY <1>1, Numbers DEF Burns, Requests
<1>3. c = rows[s].ciphertext /\ rows[s].verifier \in {Null, q.verifier}
  BY <1>1 DEF Burns
<1>4. Sealed(rows[s], s)
  BY <1>1, <1>2, Numbers DEF Burns, Base, Asked
<1>5. PICK passphrase \in Passphrases \cup {Null} :
        /\ rows[s].ciphertext = EncryptSecret(s, s, passphrase)
        /\ rows[s].verifier = Proof(passphrase, s)
  BY <1>4 DEF Sealed
<1>6. c.aad = s /\ c.key = DeriveAesKey(s, s, passphrase)
  BY <1>3, <1>5 DEF EncryptSecret, Encrypt
<1>7. CASE passphrase = Null
  <2>1. c.key.salt = Null
    BY <1>6, <1>7 DEF DeriveAesKey
  <2> QED
    BY <1>1, <2>1, NullIsNone DEF Burns
<1>8. CASE passphrase # Null
  <2>1. c.key.salt[1] = passphrase
    BY <1>6, <1>8 DEF DeriveAesKey
  <2>2. rows[s].verifier # Null /\ rows[s].verifier = DeriveVerifier(passphrase, s)
    BY <1>2, <1>5, <1>8, Proofs
  <2>3. q.verifier = DeriveVerifier(c.key.salt[1], c.aad)
    BY <1>3, <1>6, <2>1, <2>2
  <2> QED
    BY <1>1, <2>3, NullIsNone DEF Burns
<1> QED
  BY <1>7, <1>8

ProvenBurns ==
  \A c \in burned' \ burned :
    c.key.salt = Null \/
    \E q \in late \cup {asked[p] : p \in Pages} : q # Null /\ q.kind = "consume"
       /\ q.verifier = DeriveVerifier(c.key.salt[1], c.aad)

LEMMA ProvenStep == Base /\ [Next]_vars => [ProvenBurns]_vars
<1> SUFFICES ASSUME Base, Next PROVE ProvenBurns
  BY DEF vars
<1>1. ASSUME NEW p \in Senders, Create(p)
      PROVE  ProvenBurns
  BY <1>1, CreateFrame DEF SenderFrame, ProvenBurns
<1>2. ASSUME NEW t \in Readers, OpenLink(t) \/ Press(t) \/ Handles(t)
      PROVE  ProvenBurns
  BY <1>2, ReadFrame DEF ReaderFrame, ProvenBurns
<1>3. ASSUME NEW p \in Pages, Serves(p)
      PROVE  ProvenBurns
  <2>1. PICK a \in Answers : Works(asked[p], a)
    BY <1>3, Serving DEF Served
  <2>2. asked[p] \in Requests /\ Fits(asked[p])
    BY <1>3, Serving, Asking DEF Served
  <2> QED
    BY <2>1, <2>2, ProvenBurn DEF ProvenBurns
<1>4. CASE ServeLate /\ UNCHANGED <<createVars, revealVars>>
  <2>1. PICK q \in late : \E a \in Answers : Works(q, a)
    BY <1>4, ServingLate DEF ServedLate
  <2>2. PICK a \in Answers : Works(q, a)
    BY <2>1
  <2>3. q \in Requests /\ Fits(q)
    BY DEF Base, Typed, Asked
  <2> QED
    BY <2>2, <2>3, ProvenBurn DEF ProvenBurns
<1>5. ASSUME NEW p \in Pages, Break(p)
      PROVE  ProvenBurns
  BY <1>5 DEF Break, ProvenBurns
<1>6. ASSUME NEW s \in Slugs, Expire(s) \/ Unlock(s)
      PROVE  ProvenBurns
  BY <1>6 DEF Expire, Unlock, ProvenBurns
<1> QED
  BY <1>1, <1>2, <1>3, <1>4, <1>5, <1>6 DEF Next, Outside

\* A typo never destroys a secret: whatever the pages send and the network
\* delivers late, a secret that has a passphrase is burned only by a request
\* with the proof of that passphrase for its slug.
THEOREM TyposAreSafe == Spec => TypoIsSafe
<1>1. Base /\ [Next]_vars => [ProvenBurns]_vars
  BY ProvenStep
<1>2. Spec => [][ProvenBurns]_vars
  BY <1>1, BaseInit, BaseNext, PTL DEF Spec
<1> QED
  BY <1>2 DEF TypoIsSafe, ProvenBurns
----------------------------------------------------------------------------
(* Slugs have owners.                                                      *)

LEMMA OwnedInit == Init => Owned
<1> SUFFICES ASSUME Init PROVE Owned
  OBVIOUS
<1>1. \A s \in Slugs : rows[s] = IF s = 0 THEN Stranger ELSE Null
  BY DEF Init, ServiceInit
<1>2. \A s \in Slugs : s > draws => s # 0
  BY Numbers DEF Init, CreateInit
<1>3. late = {} /\ Offered = {}
  BY DEF Init, ServiceInit, CreateInit, Offered
<1>4. \A p \in Senders : asked[p] = Null
  BY SendersAssumption DEF Init, ServiceInit
<1> QED
  BY <1>1, <1>2, <1>3, <1>4 DEF Owned, Unused, LateAt

\* Slugs in use have been drawn.
LEMMA Drawn ==
  ASSUME Base
  PROVE  /\ \A s \in Offered : s \in Nat /\ s # 0 /\ s <= draws
         /\ \A p \in Pages : asked[p] # Null =>
              asked[p].slug \in Slugs /\ asked[p].slug <= draws
<1>1. \A s \in Offered : s \in Nat /\ s # 0 /\ s <= draws
  BY Numbers DEF Base, Typed, Asked, Offered, Links
<1>2. \A p \in Pages : asked[p] # Null => asked[p].slug \in Slugs
  BY DEF Base, Typed, Requests
<1>3. draws \in Nat
  BY DEF Base, Typed
<1>4. ASSUME NEW p \in Senders, asked[p] # Null
      PROVE  asked[p].slug <= draws
  <2>1. Posting(p)
    BY <1>4 DEF Base, Asked
  <2> QED
    BY <1>3, <2>1 DEF Posting
<1>5. ASSUME NEW t \in Readers, asked[t] # Null
      PROVE  asked[t].slug <= draws
  <2>1. Reading(t)
    BY <1>5 DEF Base, Asked
  <2>2. tab[t].slug \in Offered
    BY <2>1 DEF Reading, Consuming, Base, Asked
  <2> QED
    BY <1>1, <2>1, <2>2 DEF Reading
<1> QED
  BY <1>1, <1>2, <1>4, <1>5, PagesAssumption

\* A link is shown for a slug that was answered 201.
LEMMA NewLink ==
  ASSUME Base, NEW p \in Senders, Create(p), NEW s \in Offered' \ Offered
  PROVE  /\ answer[p] # Null /\ answer[p].status = "201"
         /\ asked[p] # Null /\ asked[p].slug = s /\ s # 0
<1>1. shared' # shared
  BY DEF Offered
<1>2. ShowLink(p)
  BY <1>1 DEF Create, CreateStep, Submit, TryAgain, FailSubmit, NewSecret
<1>3. /\ form[p].at = "waiting" /\ answer[p] # Null /\ answer[p].status = "201"
      /\ shared' = shared \cup {Link(form[p].slug, form[p].key)}
  BY <1>2 DEF ShowLink, Answered
<1>4. asked[p] # Null /\ asked[p].slug # 0 /\ asked[p].slug = form[p].slug
  BY <1>3, SendersAssumption DEF Base, Asked, Replied, Posting
<1>5. s = form[p].slug
  BY <1>3 DEF Offered, Link
<1> QED
  BY <1>3, <1>4, <1>5

\* A sender draws a new slug, or asks no more.
LEMMA OwnedCreate ==
  ASSUME Base, Owned, NEW p \in Senders, Create(p)
  PROVE  Owned'
<1>1. SenderFrame(p) /\ draws \in Nat /\ p \in Pages
  BY CreateFrame, SendersAssumption DEF Base, Typed
<1>2. \A s \in Slugs : Unused(s)' <=> Unused(s)
  BY <1>1 DEF SenderFrame, Unused, LateAt
<1>3. \A s : LateAt(s)' <=> LateAt(s)
  BY <1>1 DEF SenderFrame, LateAt
<1>4. \A o \in Senders \ {p} : asked'[o] = asked[o] /\ answer'[o] = answer[o]
  BY <1>1, SendersAssumption DEF SenderFrame
<1>5. CASE Submit(p) \/ TryAgain(p)
  <2>1. Draws(p)
    BY <1>5, Drawing DEF Create
  <2>2. PICK q \in Requests :
          /\ asked' = [asked EXCEPT ![p] = q]
          /\ q.slug # 0 => q.slug = draws + 1
    BY <2>1 DEF Draws
  <2>3. draws' = draws + 1 /\ draws < MaxDraws /\ Offered' = Offered
    BY <2>1 DEF Draws, Offered
  <2>4. asked'[p] = q /\ answer'[p] = Null
    BY <1>1, <2>2 DEF Base, Typed, SenderFrame
  <2>5. draws + 1 \in Slugs /\ Unused(draws + 1)
    BY <1>1, <2>3, BoundsAssumption DEF Slugs, Owned
  <2>6. draws + 1 \notin Offered
    BY <1>1, Drawn
  <2>7. \A o \in Senders \ {p} : asked[o] # Null => asked[o].slug # draws + 1
    BY <1>1, Drawn, Numbers, SendersAssumption
  <2>8. \A s \in Slugs : s > draws' => Unused(s)'
    BY <1>1, <1>2, <2>3, Numbers DEF Owned
  <2>9. \A s \in Offered' : ~LateAt(s)'
    BY <1>3, <2>3 DEF Owned
  <2>10. ASSUME asked'[p].slug # 0
         PROVE  Owns(p)'
    <3>1. asked'[p].slug = draws + 1
      BY <2>2, <2>4, <2>10
    <3>2. Unused(asked[p].slug)'
      BY <1>1, <2>5, <3>1 DEF SenderFrame, Unused, LateAt
    <3> QED
      BY <1>4, <2>3, <2>4, <2>6, <2>7, <3>1, <3>2 DEF Owns
  <2>11. ASSUME NEW o \in Senders \ {p}, asked[o] # Null, asked[o].slug # 0
         PROVE  Owns(o)'
    <3>1. Owns(o)
      BY <2>11 DEF Owned
    <3>2. asked'[p].slug # asked[o].slug
      BY <2>2, <2>4, <2>7, <2>11
    <3> QED
      BY <1>1, <1>4, <2>3, <3>1, <3>2 DEF Owns, SenderFrame, Unused, LateAt
  <2> QED
    BY <1>4, <2>8, <2>9, <2>10, <2>11 DEF Owned
<1>6. CASE ShowLink(p) \/ FailSubmit(p) \/ NewSecret(p)
  <2>1. asked'[p] = Null /\ draws' = draws
    BY <1>1, <1>6 DEF ShowLink, FailSubmit, Settled, NewSecret, service, network,
         Base, Typed, Asked, Posting
  <2>2. \A s \in Offered' \ Offered :
          asked[p] # Null /\ asked[p].slug = s /\ s # 0 /\ ~LateAt(s)
    BY NewLink DEF Owned, Owns, Lost
  <2>3. \A s \in Slugs : s > draws' => Unused(s)'
    BY <1>2, <2>1 DEF Owned
  <2>4. \A s \in Offered' : ~LateAt(s)'
    BY <1>3, <2>2 DEF Owned
  <2>5. ASSUME NEW o \in Senders, asked'[o] # Null, asked'[o].slug # 0
        PROVE  Owns(o)'
    <3>1. o # p /\ asked'[o] = asked[o] /\ answer'[o] = answer[o]
      BY <1>4, <2>1, <2>5
    <3>2. Owns(o)
      BY <2>5, <3>1 DEF Owned
    <3>3. asked[o].slug \notin Offered'
      BY <2>2, <3>1, <3>2 DEF Owns
    <3> QED
      BY <1>1, <1>4, <2>1, <3>1, <3>2, <3>3 DEF Owns, SenderFrame, Unused, LateAt
  <2> QED
    BY <2>3, <2>4, <2>5 DEF Owned
<1> QED
  BY <1>5, <1>6 DEF Create, CreateStep

LEMMA OwnedRead ==
  ASSUME Base, Owned, UNCHANGED <<rows, late, createVars>>,
         \A p \in Senders : asked'[p] = asked[p] /\ answer'[p] = answer[p]
  PROVE  Owned'
BY DEF createVars, Owned, Owns, Unused, LateAt, Offered

\* The server, or the network, acts on a request for slug k.
LEMMA OwnedService ==
  ASSUME Base, Owned, UNCHANGED <<asked, createVars>>, NEW k \in Slugs, k <= draws,
         \A s \in Slugs \ {k} : Unused(s) => Unused(s)',
         \A s \in Slugs \ {k} : ~LateAt(s) => ~LateAt(s)',
         k \in Offered => ~LateAt(k)',
         \A p \in Senders : asked[p] # Null /\ asked[p].slug # k => answer'[p] = answer[p],
         \A p \in Senders : asked[p] # Null /\ asked[p].slug = k /\ k # 0 =>
           /\ answer'[p] = Null \/ answer'[p].status \notin {"201", "500", Lost} =>
                Unused(k)'
           /\ answer'[p] # Null /\ answer'[p].status # Lost => ~LateAt(k)'
  PROVE  Owned'
<1>1. Offered' = Offered /\ draws' = draws /\ draws \in Nat
  BY DEF createVars, Offered, Base, Typed
<1>2. \A s \in Slugs : s > draws' => Unused(s)'
  BY <1>1, Numbers DEF Owned
<1>3. Offered \subseteq Slugs
  BY OfferedSlugs, Numbers
<1>4. \A s \in Offered' : ~LateAt(s)'
  BY <1>1, <1>3 DEF Owned
<1>5. ASSUME NEW p \in Senders, asked[p] # Null, asked[p].slug # 0
      PROVE  Owns(p)'
  <2>1. Owns(p) /\ asked[p].slug \in Slugs
    BY <1>5, SendersAssumption DEF Owned, Base, Typed, Requests
  <2>2. PICK s \in Slugs : s = asked[p].slug
    BY <2>1
  <2>3. /\ answer'[p] = Null \/ answer'[p].status \notin {"201", "500", Lost} =>
             Unused(s)'
        /\ answer'[p] # Null /\ answer'[p].status # Lost => ~LateAt(s)'
    <3>1. CASE s = k
      BY <1>5, <2>2, <3>1
    <3>2. CASE s # k
      BY <1>5, <2>1, <2>2, <3>2 DEF Owns
    <3> QED
      BY <3>1, <3>2
  <2>4. /\ Unused(s)' => Unused(asked[p].slug)'
        /\ ~LateAt(s)' => ~LateAt(asked[p].slug)'
    BY <2>2 DEF Unused, LateAt
  <2> QED
    BY <1>1, <2>1, <2>2, <2>3, <2>4 DEF Owns
<1> QED
  BY <1>2, <1>4, <1>5 DEF Owned

LEMMA WorksElsewhere ==
  ASSUME Base, NEW q \in Requests, NEW a, Works(q, a),
         NEW s \in Slugs \ {q.slug}
  PROVE  rows'[s] = rows[s]
BY DEF Base, Typed, Works, Nothing, Untouched, Stores, Counts, Burns

LEMMA OwnedServed ==
  ASSUME Base, Owned, NEW p \in Pages, Serves(p)
  PROVE  Owned'
<1>1. Served(p)
  BY Serving
<1>2. PICK a \in Answers :
        /\ Works(asked[p], a)
        /\ answer' = [answer EXCEPT ![p] = a]
  BY <1>1 DEF Served
<1>3. /\ asked[p] # Null /\ answer[p] = Null
      /\ UNCHANGED <<asked, late, createVars>>
  BY <1>1 DEF Served
<1>4. asked[p] \in Requests /\ Fits(asked[p])
  BY <1>3, Asking
<1>5. PICK k \in Slugs : k = asked[p].slug /\ k <= draws
  BY <1>3, Drawn
<1>6. \A s : LateAt(s)' <=> LateAt(s)
  BY <1>3 DEF LateAt
<1>7. \A s \in Slugs \ {k} : rows'[s] = rows[s]
  BY <1>2, <1>4, <1>5, WorksElsewhere
<1>8. \A s \in Slugs \ {k} : Unused(s) => Unused(s)'
  BY <1>6, <1>7 DEF Unused
<1>9. k \in Offered => ~LateAt(k)'
  BY <1>6 DEF Owned
<1>10. answer'[p] = a /\ \A o \in Pages \ {p} : answer'[o] = answer[o]
  BY <1>2 DEF Base, Typed
<1>11. ASSUME NEW o \in Senders, asked[o] # Null, asked[o].slug = k, k # 0
       PROVE  /\ answer'[o] = Null \/ answer'[o].status \notin {"201", "500", Lost} =>
                   Unused(k)'
              /\ answer'[o] # Null /\ answer'[o].status # Lost => ~LateAt(k)'
  <2>1. Owns(o)
    BY <1>11 DEF Owned
  <2>2. k \notin Offered
    BY <1>11, <2>1 DEF Owns
  <2>3. asked[p].kind = "post"
    BY <1>4, <1>5, <2>2 DEF Fits
  <2>4. p \in Senders
    BY <1>3, <2>3, PagesAssumption DEF Base, Asked, Reading, Consuming
  <2>5. o = p
    BY <1>3, <1>5, <1>11, <2>1, <2>4 DEF Owns
  <2>6. Unused(k)
    BY <1>3, <1>11, <2>1, <2>5 DEF Owns
  <2>7. Nothing(asked[p], a) \/ Stores(asked[p], a)
    BY <1>2, <2>3 DEF Works, Counts, Burns
  <2>8. CASE Nothing(asked[p], a)
    BY <1>6, <2>6, <2>8 DEF Nothing, Untouched, Unused
  <2>9. CASE Stores(asked[p], a)
    BY <1>6, <1>10, <2>5, <2>6, <2>9, NullIsNone DEF Stores, Unused
  <2> QED
    BY <2>7, <2>8, <2>9
<1>12. \A o \in Senders : asked[o] # Null /\ asked[o].slug # k => answer'[o] = answer[o]
  BY <1>5, <1>10, SendersAssumption
<1> QED
  BY <1>3, <1>5, <1>6, <1>8, <1>9, <1>11, <1>12, OwnedService

LEMMA OwnedLate ==
  ASSUME Base, Owned, ServeLate, UNCHANGED <<createVars, revealVars>>
  PROVE  Owned'
<1>1. ServedLate
  BY ServingLate
<1>2. PICK q \in late : (\E a \in Answers : Works(q, a)) /\ late' = late \ {q}
  BY <1>1 DEF ServedLate
<1>3. PICK a \in Answers : Works(q, a)
  BY <1>2
<1>4. q \in Requests /\ Fits(q)
  BY DEF Base, Typed, Asked
<1>5. UNCHANGED <<asked, answer, createVars>>
  BY <1>1 DEF ServedLate
<1>6. PICK k \in Slugs : k = q.slug
  BY <1>4 DEF Requests
<1>7. \A s : LateAt(s)' => LateAt(s)
  BY <1>2 DEF LateAt
<1>8. \A s \in Slugs \ {k} : Unused(s) => Unused(s)'
  BY <1>3, <1>4, <1>6, <1>7, WorksElsewhere DEF Unused
<1>9. k \in Offered => ~LateAt(k)'
  BY <1>7 DEF Owned
<1>10. q.kind = "post" => LateAt(k)
  BY <1>6 DEF LateAt
<1>11. k <= draws
  <2>1. CASE q.kind = "post"
    BY <1>6, <1>10, <2>1, Numbers DEF Owned, Unused, Base, Typed
  <2>2. CASE q.kind # "post"
    BY <1>4, <1>6, <2>2, Drawn DEF Fits
  <2> QED
    BY <2>1, <2>2
<1>12. ASSUME NEW o \in Senders, asked[o] # Null, asked[o].slug = k, k # 0
       PROVE  /\ answer'[o] = Null \/ answer'[o].status \notin {"201", "500", Lost} =>
                   Unused(k)'
              /\ answer'[o] # Null /\ answer'[o].status # Lost => ~LateAt(k)'
  <2>1. Owns(o)
    BY <1>12 DEF Owned
  <2>2. q.kind = "post"
    BY <1>4, <1>6, <1>12, <2>1 DEF Fits, Owns
  <2>3. LateAt(k)
    BY <1>10, <2>2
  <2>4. answer[o] # Null /\ answer[o].status = Lost
    BY <1>12, <2>1, <2>3 DEF Owns, Unused
  <2> QED
    BY <1>5, <2>4
<1> QED
  BY <1>5, <1>6, <1>7, <1>8, <1>9, <1>11, <1>12, OwnedService

LEMMA OwnedBreak ==
  ASSUME Base, Owned, NEW p \in Pages, Break(p), UNCHANGED <<createVars, revealVars>>
  PROVE  Owned'
<1>1. /\ asked[p] # Null
      /\ answer' = [answer EXCEPT ![p] = Answer(Lost)]
      /\ late' = late \/ late' = late \cup Effective(asked[p])
      /\ UNCHANGED <<rows, asked>>
  BY DEF Break
<1>2. PICK k \in Slugs : k = asked[p].slug /\ k <= draws
  BY <1>1, Drawn
<1>3. \A s \in Slugs \ {k} : LateAt(s)' => LateAt(s)
  BY <1>1, <1>2, EffectiveSelf DEF LateAt
<1>4. \A s \in Slugs \ {k} : Unused(s) => Unused(s)'
  BY <1>1, <1>3 DEF Unused
<1>5. answer'[p] = Answer(Lost) /\ \A o \in Pages \ {p} : answer'[o] = answer[o]
  BY <1>1 DEF Base, Typed
<1>6. Answer(Lost) # Null /\ Answer(Lost).status = Lost
  BY AnswerType, NullIsNone DEF Statuses
<1>7. CASE p \in Senders
  <2>1. k # 0 => Owns(p)
    BY <1>1, <1>2, <1>7 DEF Owned
  <2>2. k \notin Offered
    BY <1>2, <2>1, OfferedSlugs, Numbers DEF Owns
  <2>3. \A o \in Senders : asked[o] # Null /\ asked[o].slug = k /\ k # 0 => o = p
    BY <1>1, <1>2, <1>7, <2>1 DEF Owns
  <2> QED
    BY <1>1, <1>2, <1>3, <1>4, <1>5, <1>6, <2>2, <2>3, SendersAssumption, OwnedService
<1>8. CASE p \in Readers
  <2>1. Reading(p)
    BY <1>1, <1>8 DEF Base, Asked
  <2>2. asked[p].kind # "post"
    BY <2>1 DEF Reading, Consuming
  <2>3. \A s : LateAt(s)' => LateAt(s)
    BY <1>1, <2>2, EffectiveSelf DEF LateAt
  <2>4. \A o \in Senders : o # p /\ o \in Pages
    BY <1>8, PagesAssumption
  <2>5. ASSUME NEW o \in Senders, asked[o] # Null, asked[o].slug = k, k # 0
        PROVE  FALSE
    <3>1. Owns(o)
      BY <2>5 DEF Owned
    <3>2. k \in Offered
      BY <1>1, <1>2, <2>2, Asking DEF Fits
    <3> QED
      BY <2>5, <3>1, <3>2 DEF Owns
  <2>6. k \in Offered => ~LateAt(k)'
    BY <2>3 DEF Owned
  <2> QED
    BY <1>1, <1>2, <1>3, <1>4, <1>5, <2>4, <2>5, <2>6, OwnedService
<1> QED
  BY <1>7, <1>8, PagesAssumption

LEMMA OwnedTime ==
  ASSUME Base, Owned, NEW s \in Slugs, Expire(s) \/ Unlock(s),
         UNCHANGED <<createVars, revealVars>>
  PROVE  Owned'
<1>1. UNCHANGED <<asked, answer, late>>
  BY DEF Expire, Unlock, network
<1>2. \A x : LateAt(x)' <=> LateAt(x)
  BY <1>1 DEF LateAt
<1>3. \A x \in Slugs : rows[x] = Null => rows'[x] = Null
  BY DEF Expire, Unlock, Base, Typed
<1>4. \A x \in Slugs : Unused(x) => Unused(x)'
  BY <1>2, <1>3 DEF Unused
<1>5. 0 \in Slugs /\ 0 <= draws
  BY Numbers DEF Base, Typed
<1>6. 0 \notin Offered
  BY OfferedSlugs, Numbers
<1> QED
  BY <1>1, <1>2, <1>4, <1>5, <1>6, OwnedService

LEMMA OwnedNext == Base /\ Owned /\ [Next]_vars => Owned'
<1> SUFFICES ASSUME Base, Owned, [Next]_vars PROVE Owned'
  OBVIOUS
<1>1. ASSUME NEW t \in Readers, OpenLink(t) \/ Press(t) \/ Handles(t)
      PROVE  Owned'
  <2>1. \A p \in Senders : p # t /\ p \in Pages
    BY PagesAssumption
  <2> QED
    BY <1>1, <2>1, ReadFrame, OwnedRead DEF ReaderFrame
<1>2. CASE Outside
  BY <1>2, OwnedLate, OwnedBreak, OwnedTime DEF Outside
<1>3. CASE UNCHANGED vars
  BY <1>3, OwnedRead DEF vars, service, network
<1> QED
  BY <1>1, <1>2, <1>3, OwnedCreate, OwnedServed DEF Next
----------------------------------------------------------------------------
(* A secret that was stored is there, or was burned, or expired.           *)

LEMMA RowLeft ==
  ASSUME Base, NEW s \in LinkKeys, rows[s] # Null
  PROVE  rows[s].ciphertext.key.link = s /\ rows[s].ciphertext.aad = s
BY Numbers, Sealing DEF Base, Asked

LEMMA KeptWorks ==
  ASSUME Base, NEW q \in Requests, Fits(q), NEW a, Works(q, a),
         NEW s \in LinkKeys, Kept(s)
  PROVE  Kept(s)'
<1>1. s \in Slugs /\ s # 0
  BY Numbers
<1>2. /\ rows \in [Slugs -> Rows \cup {Stranger, Null}]
      /\ \A x \in Slugs \ {0} : rows'[x] \in Rows \cup {Null}
  BY WorksTyped DEF Base, Typed
<1>3. burned \subseteq burned' /\ expired \subseteq expired'
  BY DEF Works, Nothing, Untouched, Stores, Counts, Burns
<1>4. CASE rows[s] = Null
  BY <1>3, <1>4 DEF Kept
<1>5. CASE rows[s] # Null /\ Burns(q, a) /\ q.slug = s
  <2>1. rows[s].ciphertext \in burned'
    BY <1>5 DEF Burns
  <2> QED
    BY <1>5, <2>1, RowLeft DEF Kept
<1>6. CASE rows[s] # Null /\ ~(Burns(q, a) /\ q.slug = s)
  <2>1. CASE q.slug # s
    BY <1>1, <1>6, <2>1, WorksElsewhere DEF Kept
  <2>2. CASE q.slug = s
    <3>1. Nothing(q, a) \/ Counts(q, a)
      BY <1>6, <2>2 DEF Works, Stores
    <3>2. CASE Nothing(q, a)
      BY <1>6, <3>2 DEF Nothing, Untouched, Kept
    <3>3. CASE Counts(q, a)
      <4>1. PICK row \in Rows : rows' = [rows EXCEPT ![q.slug] = row]
        BY <3>3 DEF Counts
      <4> QED
        BY <1>1, <1>2, <2>2, <4>1, NullIsNone DEF Kept
    <3> QED
      BY <3>1, <3>2, <3>3
  <2> QED
    BY <2>1, <2>2
<1> QED
  BY <1>4, <1>5, <1>6

LEMMA KeptStays ==
  ASSUME Base, Next, NEW s \in LinkKeys, Kept(s)
  PROVE  Kept(s)'
<1>1. s \in Slugs /\ s # 0
  BY Numbers
<1>2. ASSUME UNCHANGED <<rows, burned, expired>>
      PROVE  Kept(s)'
  BY <1>2 DEF Kept
<1>3. ASSUME NEW p \in Senders, Create(p)
      PROVE  Kept(s)'
  BY <1>2, <1>3, CreateFrame DEF SenderFrame
<1>4. ASSUME NEW t \in Readers, OpenLink(t) \/ Press(t) \/ Handles(t)
      PROVE  Kept(s)'
  BY <1>2, <1>4, ReadFrame DEF ReaderFrame
<1>5. ASSUME NEW p \in Pages, Serves(p)
      PROVE  Kept(s)'
  BY <1>5, Serving, Asking, KeptWorks DEF Served
<1>6. CASE ServeLate /\ UNCHANGED <<createVars, revealVars>>
  <2>1. PICK q \in late : \E a \in Answers : Works(q, a)
    BY <1>6, ServingLate DEF ServedLate
  <2>2. q \in Requests /\ Fits(q)
    BY DEF Base, Typed, Asked
  <2> QED
    BY <2>1, <2>2, KeptWorks
<1>7. ASSUME NEW p \in Pages, Break(p)
      PROVE  Kept(s)'
  BY <1>2, <1>7 DEF Break
<1>8. ASSUME NEW x \in Slugs, Expire(x)
      PROVE  Kept(s)'
  <2>1. rows \in [Slugs -> Rows \cup {Stranger, Null}]
    BY DEF Base, Typed
  <2>2. /\ rows' = [rows EXCEPT ![x] = Null]
        /\ expired' = expired \cup {rows[x].ciphertext}
        /\ burned' = burned
    BY <1>8 DEF Expire
  <2>3. CASE rows[s] # Null /\ x = s
    BY <2>2, <2>3, RowLeft DEF Kept
  <2>4. CASE rows[s] = Null \/ x # s
    BY <1>1, <2>1, <2>2, <2>4 DEF Kept
  <2> QED
    BY <2>3, <2>4
<1>9. ASSUME NEW x \in Slugs, Unlock(x)
      PROVE  Kept(s)'
  <2>1. rows \in [Slugs -> Rows \cup {Stranger, Null}]
    BY DEF Base, Typed
  <2>2. /\ rows' = [rows EXCEPT ![x].locked = FALSE]
        /\ UNCHANGED <<burned, expired>>
    BY <1>9 DEF Unlock
  <2>3. rows'[s] = Null => rows[s] = Null
    <3>1. CASE x # s
      BY <1>1, <2>1, <2>2, <3>1
    <3>2. CASE x = s
      <4>1. rows[s] # Null /\ rows[s] \in Rows
        BY <1>1, <1>9, <3>2, SlugRow DEF Unlock
      <4>2. rows'[s] = [rows[s] EXCEPT !.locked = FALSE]
        BY <1>1, <2>1, <2>2, <3>2
      <4>3. rows'[s] \in Rows
        BY <4>1, <4>2 DEF Rows
      <4> QED
        BY <4>3, NullIsNone
    <3> QED
      BY <3>1, <3>2
  <2> QED
    BY <2>2, <2>3 DEF Kept
<1> QED
  BY <1>3, <1>4, <1>5, <1>6, <1>7, <1>8, <1>9 DEF Next, Outside

LEMMA ToldInit == Init => Told
<1> SUFFICES ASSUME Init PROVE Told
  OBVIOUS
<1>1. \A p \in Senders : answer[p] = Null
  BY SendersAssumption DEF Init, ServiceInit
<1>2. late = {} /\ Offered = {}
  BY DEF Init, ServiceInit, CreateInit, Offered
<1> QED
  BY <1>1, <1>2 DEF Told

LEMMA ToldServed ==
  ASSUME Base, NEW p \in Senders, Serves(p)
  PROVE  Knows(p)'
<1>1. p \in Pages
  BY SendersAssumption
<1>2. Served(p)
  BY <1>1, Serving
<1>3. PICK a \in Answers :
        /\ a.status # Lost
        /\ Works(asked[p], a)
        /\ answer' = [answer EXCEPT ![p] = a]
        /\ astray' = IF a.status = "500" THEN astray \cup Effective(asked[p])
                                        ELSE astray
  BY <1>2 DEF Served
<1>4. asked' = asked /\ asked[p] # Null
  BY <1>2 DEF Served
<1>5. asked[p].kind = "post" /\ asked[p].slug \in Slugs
  BY <1>1, <1>4, Asking DEF Base, Asked, Posting, Requests
<1>6. answer'[p] = a
  BY <1>1, <1>3 DEF Base, Typed
<1>7. a.status = "500" => asked[p] \in astray'
  BY <1>3, <1>5, EffectiveSelf
<1>8. CASE Nothing(asked[p], a)
  BY <1>3, <1>4, <1>6, <1>7, <1>8 DEF Nothing, Knows
<1>9. CASE Stores(asked[p], a)
  <2>1. rows'[asked[p].slug] # Null
    <3>1. asked[p].slug # 0 /\ asked[p] \in Requests /\ Fits(asked[p])
      BY <1>1, <1>4, <1>9, Asking DEF Stores
    <3>2. rows'[asked[p].slug] = Row(asked[p])
      BY <1>5, <1>9 DEF Stores, Base, Typed
    <3>3. Row(asked[p]) \in Rows
      <4>1. Sealed(asked[p], asked[p].slug) /\ asked[p].slug \in LinkKeys
        BY <1>5, <3>1, Numbers DEF Fits
      <4>2. asked[p].ciphertext \in Ciphertexts /\ asked[p].verifier \in Verifiers
        BY <4>1, Sealing
      <4> QED
        BY <4>2, BoundsAssumption DEF Row, Rows
    <3> QED
      BY <3>2, <3>3, NullIsNone
  <2>2. Kept(asked[p].slug)'
    BY <1>4, <2>1 DEF Kept
  <2> QED
    BY <1>3, <1>4, <1>6, <1>7, <1>9, <2>2 DEF Stores, Knows
<1> QED
  BY <1>3, <1>5, <1>8, <1>9 DEF Works, Counts, Burns

LEMMA ToldNext == Base /\ Told /\ [Next]_vars => Told'
<1> SUFFICES ASSUME Base, Told, Next PROVE Told'
  BY DEF Told, Knows, Kept, Offered, vars, service, network, createVars
<1>1. /\ \A p \in Senders : answer[p] # Null => Knows(p)
      /\ late \subseteq astray
      /\ \A s \in Offered : Kept(s)
  BY DEF Told
<1>2. ASSUME \A p \in Senders : answer'[p] # Null => Knows(p)',
             late' \subseteq astray',
             \A s \in Offered' : Kept(s)'
      PROVE  Told'
  BY <1>2 DEF Told
<1>3. \A s \in LinkKeys : Kept(s) => Kept(s)'
  BY KeptStays
<1>4. ASSUME NEW p \in Senders, answer[p] # Null, astray \subseteq astray',
             answer'[p] = answer[p], asked'[p] = asked[p]
      PROVE  Knows(p)'
  <2>1. Knows(p) /\ asked[p] # Null
    BY <1>1, <1>4, SendersAssumption DEF Base, Asked, Replied
  <2>2. PICK s \in Slugs : s = asked[p].slug
    BY <2>1, Drawn, SendersAssumption
  <2>3. answer[p].status = "201" => s \in LinkKeys
    BY <1>4, <2>2, Numbers, SendersAssumption DEF Base, Asked, Replied
  <2>4. answer[p].status = "201" => Kept(s)'
    BY <1>3, <2>1, <2>2, <2>3 DEF Knows
  <2>5. Kept(s)' => Kept(asked[p].slug)'
    BY <1>4, <2>2 DEF Kept
  <2> QED
    BY <1>4, <2>1, <2>4, <2>5 DEF Knows
<1>5. ASSUME Offered' = Offered
      PROVE  \A s \in Offered' : Kept(s)'
  BY <1>1, <1>3, <1>5, OfferedSlugs
<1>6. ASSUME NEW p \in Senders, Create(p)
      PROVE  Told'
  <2>1. SenderFrame(p)
    BY <1>6, CreateFrame
  <2>2. \A o \in Senders : answer'[o] # Null => Knows(o)'
    BY <1>4, <2>1, SendersAssumption DEF SenderFrame
  <2>3. \A s \in Offered' : Kept(s)
    BY <1>1, <1>6, NewLink DEF Knows
  <2>4. Offered' \subseteq LinkKeys
    BY <1>6, BaseCreate DEF Base, Typed, Offered, Links
  <2> QED
    BY <1>1, <1>2, <1>3, <2>1, <2>2, <2>3, <2>4 DEF SenderFrame
<1>7. ASSUME NEW t \in Readers, OpenLink(t) \/ Press(t) \/ Handles(t)
      PROVE  Told'
  <2>1. ReaderFrame(t)
    BY <1>7, ReadFrame
  <2>2. \A p \in Senders : p # t /\ p \in Pages
    BY PagesAssumption
  <2>3. \A o \in Senders : answer'[o] # Null => Knows(o)'
    BY <1>4, <2>1, <2>2 DEF ReaderFrame
  <2>4. Offered' = Offered /\ late' \subseteq astray'
    BY <1>1, <2>1 DEF ReaderFrame, createVars, Offered
  <2> QED
    BY <1>2, <1>5, <2>3, <2>4
<1>8. ASSUME NEW p \in Pages, Serves(p)
      PROVE  Told'
  <2>1. Served(p)
    BY <1>8, Serving
  <2>2. Offered' = Offered /\ late' \subseteq astray' /\ astray \subseteq astray'
        /\ asked' = asked /\ \A o \in Pages \ {p} : answer'[o] = answer[o]
    BY <1>1, <2>1 DEF Served, createVars, Offered, Base, Typed
  <2>3. \A o \in Senders : answer'[o] # Null => Knows(o)'
    BY <1>4, <1>8, <2>2, ToldServed, SendersAssumption
  <2> QED
    BY <1>2, <1>5, <2>2, <2>3
<1>9. CASE ServeLate /\ UNCHANGED <<createVars, revealVars>>
  <2>1. Offered' = Offered /\ late' \subseteq late /\ UNCHANGED <<asked, answer, astray>>
    BY <1>9 DEF ServeLate, createVars, Offered
  <2>2. \A o \in Senders : answer'[o] # Null => Knows(o)'
    BY <1>4, <2>1
  <2> QED
    BY <1>1, <1>2, <1>5, <2>1, <2>2
<1>10. ASSUME NEW p \in Pages, Break(p), UNCHANGED <<createVars, revealVars>>
       PROVE  Told'
  <2>1. /\ answer' = [answer EXCEPT ![p] = Answer(Lost)]
        /\ astray' = astray \cup Effective(asked[p])
        /\ late' = late \/ late' = late \cup Effective(asked[p])
        /\ asked' = asked /\ asked[p] # Null /\ Offered' = Offered
    BY <1>10 DEF Break, createVars, Offered
  <2>2. late' \subseteq astray' /\ astray \subseteq astray'
    BY <1>1, <2>1
  <2>3. answer'[p] = Answer(Lost) /\ \A o \in Pages \ {p} : answer'[o] = answer[o]
    BY <2>1 DEF Base, Typed
  <2>4. ASSUME p \in Senders
        PROVE  Knows(p)'
    <3>1. asked[p] \in astray'
      BY <2>1, <2>4, EffectiveSelf DEF Base, Asked, Posting
    <3>2. Answer(Lost).status = Lost /\ Answer(Lost).ciphertext = Null /\ Lost # "201"
      BY AnswerType DEF Statuses, Lost
    <3> QED
      BY <2>1, <2>3, <3>1, <3>2 DEF Knows
  <2>5. \A o \in Senders : answer'[o] # Null => Knows(o)'
    BY <1>4, <2>1, <2>2, <2>3, <2>4, SendersAssumption
  <2> QED
    BY <1>2, <1>5, <2>1, <2>2, <2>5
<1>11. ASSUME NEW s \in Slugs, Expire(s) \/ Unlock(s), UNCHANGED <<createVars, revealVars>>
       PROVE  Told'
  <2>1. UNCHANGED <<asked, answer, late, astray>> /\ Offered' = Offered
    BY <1>11 DEF Expire, Unlock, network, createVars, Offered
  <2>2. \A o \in Senders : answer'[o] # Null => Knows(o)'
    BY <1>4, <2>1
  <2> QED
    BY <1>1, <1>2, <1>5, <2>1, <2>2
<1> QED
  BY <1>6, <1>7, <1>8, <1>9, <1>10, <1>11 DEF Next, Outside

\* The secret behind a link that was shown is in the table under the slug of the
\* link, encrypted for its key, unless it was burned or expired.
THEOREM LinksAreStored == Spec => []LinkStored
<1>1. Base /\ Told => LinkStored
  <2> SUFFICES ASSUME Base, Told, NEW l \in shared
               PROVE  \/ /\ rows[l.slug] # Null
                         /\ rows[l.slug].ciphertext.key.link = l.key
                         /\ rows[l.slug].ciphertext.aad = l.slug
                      \/ \E c \in burned \cup expired :
                           c.key.link = l.key /\ c.aad = l.slug
    BY DEF LinkStored
  <2>1. l.key = l.slug /\ l.slug \in Offered /\ l.slug \in LinkKeys
    BY OfferedSlugs DEF Base, Asked, Offered
  <2>2. Kept(l.slug)
    BY <2>1 DEF Told
  <2> QED
    BY <2>1, <2>2, RowLeft DEF Kept
<1> QED
  BY <1>1, BaseInit, BaseNext, ToldInit, ToldNext, PTL DEF Spec
----------------------------------------------------------------------------
(* What is stored without a link shown is excused.                         *)

Excused(s) ==
  \/ \E l \in shared : l.slug = s
  \/ \E q \in astray : q.kind = "post" /\ q.slug = s
  \/ \E p \in Senders : asked[p] # Null /\ asked[p].slug = s

LEMMA ExcusedCreate ==
  ASSUME Base, Owned, Told, NEW p \in Senders, Create(p),
         NEW s \in LinkKeys, rows[s] # Null, Excused(s)
  PROVE  Excused(s)'
<1>1. SenderFrame(p)
  BY CreateFrame
<1>2. CASE \E l \in shared : l.slug = s
  BY <1>1, <1>2 DEF SenderFrame, Excused
<1>3. CASE \E q \in astray : q.kind = "post" /\ q.slug = s
  BY <1>1, <1>3 DEF SenderFrame, Excused
<1>4. ASSUME NEW o \in Senders, asked[o] # Null, asked[o].slug = s
      PROVE  Excused(s)'
  <2>1. CASE o # p
    BY <1>1, <1>4, <2>1, SendersAssumption DEF SenderFrame, Excused
  <2>2. CASE o = p
    <3>1. Owns(p) /\ ~Unused(s)
      BY <1>4, <2>2, Numbers DEF Owned, Unused
    <3>2. answer[p] # Null /\ answer[p].status \in {"201", "500", Lost} /\ Knows(p)
      BY <1>4, <2>2, <3>1 DEF Owns, Told
    <3>3. CASE answer[p].status \in {"500", Lost}
      <4>1. asked[p] \in astray /\ asked[p].kind = "post"
        BY <1>4, <2>2, <3>2, <3>3 DEF Knows, Base, Asked, Posting
      <4> QED
        BY <1>1, <1>4, <2>2, <4>1 DEF SenderFrame, Excused
    <3>4. CASE answer[p].status = "201"
      <4>1. Posting(p)
        BY <1>4, <2>2 DEF Base, Asked
      <4>2. ShowLink(p)
        BY <3>2, <3>4, <4>1 DEF Create, CreateStep, Submit, TryAgain, FailSubmit, NewSecret,
           Answered, Posting
      <4>3. Link(s, form[p].key) \in shared'
        BY <1>4, <2>2, <4>1, <4>2 DEF ShowLink, Posting
      <4> QED
        BY <4>3 DEF Link, Excused
    <3> QED
      BY <3>2, <3>3, <3>4
  <2> QED
    BY <2>1, <2>2
<1> QED
  BY <1>2, <1>3, <1>4 DEF Excused

\* What the server stores is excused by the request.
LEMMA ExcusedWorks ==
  ASSUME Base, NoOrphans, NEW q \in Requests, NEW a, Works(q, a),
         q.kind = "post" => Excused(q.slug)',
         \A x \in LinkKeys : Excused(x) => Excused(x)'
  PROVE  NoOrphans'
<1>1. ASSUME NEW s \in LinkKeys, rows'[s] # Null
      PROVE  Excused(s)'
  <2>1. s \in Slugs \ {0} /\ q.slug \in Slugs
    BY <1>1, Numbers DEF Requests
  <2>2. CASE rows[s] # Null
    BY <1>1, <2>1, <2>2 DEF NoOrphans, Excused
  <2>3. CASE rows[s] = Null
    <3>1. q.slug = s
      BY <1>1, <2>1, <2>3, WorksElsewhere
    <3>2. q.kind = "post"
      BY <1>1, <2>3, <3>1 DEF Works, Nothing, Untouched, Stores, Counts, Burns
    <3>3. Excused(q.slug)'
      BY <3>2
    <3> QED
      BY <3>1, <3>3 DEF Excused
  <2> QED
    BY <2>2, <2>3
<1> QED
  BY <1>1, Numbers DEF NoOrphans, Excused

LEMMA ExcusedFrame ==
  ASSUME NoOrphans, \A s \in LinkKeys : rows'[s] # Null => rows[s] # Null,
         \A s \in LinkKeys : rows[s] # Null /\ Excused(s) => Excused(s)'
  PROVE  NoOrphans'
BY Numbers DEF NoOrphans, Excused

LEMMA OrphansInit == Init => NoOrphans
BY DEF Init, ServiceInit, NoOrphans

LEMMA OrphansNext ==
  Base /\ Owned /\ Told /\ NoOrphans /\ [Next]_vars => NoOrphans'
<1> SUFFICES ASSUME Base, Owned, Told, NoOrphans, Next PROVE NoOrphans'
  BY DEF NoOrphans, vars, service, network, createVars
<1>1. ASSUME NEW p \in Senders, Create(p)
      PROVE  NoOrphans'
  <2>1. rows' = rows
    BY <1>1, CreateFrame DEF SenderFrame
  <2> QED
    BY <1>1, <2>1, ExcusedCreate, ExcusedFrame
<1>2. ASSUME NEW t \in Readers, OpenLink(t) \/ Press(t) \/ Handles(t)
      PROVE  NoOrphans'
  <2>1. ReaderFrame(t)
    BY <1>2, ReadFrame
  <2>2. \A p \in Senders : asked'[p] = asked[p]
    BY <2>1, PagesAssumption DEF ReaderFrame
  <2>3. \A s \in LinkKeys : Excused(s) => Excused(s)'
    BY <2>1, <2>2 DEF ReaderFrame, createVars, Excused
  <2> QED
    BY <2>1, <2>3, ExcusedFrame DEF ReaderFrame
<1>3. ASSUME UNCHANGED <<asked, shared>>, astray \subseteq astray'
      PROVE  \A s \in LinkKeys : Excused(s) => Excused(s)'
  BY <1>3 DEF Excused
<1>4. ASSUME NEW p \in Pages, Serves(p)
      PROVE  NoOrphans'
  <2>1. Served(p)
    BY <1>4, Serving
  <2>2. PICK a \in Answers : Works(asked[p], a)
    BY <2>1 DEF Served
  <2>3. UNCHANGED <<asked, shared>> /\ astray \subseteq astray' /\ asked[p] # Null
    BY <2>1 DEF Served, createVars
  <2>4. PICK q \in Requests : q = asked[p]
    BY <2>3, Asking
  <2>5. ASSUME q.kind = "post"
        PROVE  Excused(q.slug)'
    <3>1. p \in Senders
      BY <2>3, <2>4, <2>5, PagesAssumption DEF Base, Asked, Reading, Consuming
    <3> QED
      BY <2>3, <2>4, <3>1 DEF Excused
  <2>6. \A s \in LinkKeys : Excused(s) => Excused(s)'
    BY <1>3, <2>3
  <2> QED
    BY <2>2, <2>4, <2>5, <2>6, ExcusedWorks
<1>5. CASE ServeLate /\ UNCHANGED <<createVars, revealVars>>
  <2>1. ServedLate
    BY <1>5, ServingLate
  <2>2. PICK q \in late : \E a \in Answers : Works(q, a)
    BY <2>1 DEF ServedLate
  <2>3. PICK a \in Answers : Works(q, a)
    BY <2>2
  <2>4. UNCHANGED <<asked, shared, astray>>
    BY <2>1 DEF ServedLate, createVars
  <2>5. q \in Requests /\ q \in astray
    BY DEF Told, Base, Typed
  <2>6. q.kind = "post" => Excused(q.slug)'
    BY <2>4, <2>5 DEF Excused
  <2>7. \A s \in LinkKeys : Excused(s) => Excused(s)'
    BY <1>3, <2>4
  <2> QED
    BY <2>3, <2>5, <2>6, <2>7, ExcusedWorks
<1>6. ASSUME NEW p \in Pages, Break(p), UNCHANGED <<createVars, revealVars>>
      PROVE  NoOrphans'
  <2>1. UNCHANGED <<rows, asked, shared>> /\ astray \subseteq astray'
    BY <1>6 DEF Break, createVars
  <2> QED
    BY <1>3, <2>1, ExcusedFrame
<1>7. ASSUME NEW x \in Slugs, Expire(x) \/ Unlock(x), UNCHANGED <<createVars, revealVars>>
      PROVE  NoOrphans'
  <2>1. UNCHANGED <<asked, shared, astray>>
    BY <1>7 DEF Expire, Unlock, network, createVars
  <2>2. \A s \in LinkKeys : rows'[s] # Null => rows[s] # Null
    BY <1>7, Numbers DEF Expire, Unlock, Base, Typed
  <2> QED
    BY <1>3, <2>1, <2>2, ExcusedFrame
<1> QED
  BY <1>1, <1>2, <1>4, <1>5, <1>6, <1>7 DEF Next, Outside

\* No secret lies in the table of which nobody has the link, but where a create
\* got no answer or a 500: a retry after 409 leaves nothing behind.
THEOREM NothingOrphaned == Spec => []NoOrphans
BY BaseInit, BaseNext, OwnedInit, OwnedNext, ToldInit, ToldNext, OrphansInit,
   OrphansNext, PTL DEF Spec
----------------------------------------------------------------------------
(* One reader at most.                                                     *)

LEMMA OfferedGrows ==
  ASSUME Base, Next
  PROVE  Offered \subseteq Offered'
<1>1. shared \subseteq shared'
  <2>1. ASSUME NEW p \in Senders, Create(p)
        PROVE  shared \subseteq shared'
    BY <2>1, CreateFrame DEF SenderFrame
  <2>2. ASSUME NEW t \in Readers, OpenLink(t) \/ Press(t) \/ Handles(t)
        PROVE  shared \subseteq shared'
    BY <2>2, ReadFrame DEF ReaderFrame, createVars
  <2> QED
    BY <2>1, <2>2 DEF Next, Serves, Outside, createVars
<1> QED
  BY <1>1 DEF Offered

\* What was taken from the table does not come back.
LEMMA EmptiedStays ==
  ASSUME Base, Owned, Next, NEW s \in Offered, rows[s] = Null
  PROVE  rows'[s] = Null
<1>1. s \in Slugs /\ s # 0
  BY OfferedSlugs, Numbers
<1>2. ASSUME NEW q \in Requests, NEW a, Works(q, a), q.kind = "post" => q.slug # s
      PROVE  rows'[s] = Null
  <2>1. CASE q.slug # s
    BY <1>1, <1>2, <2>1, WorksElsewhere
  <2>2. CASE q.slug = s
    BY <1>2, <2>2 DEF Works, Nothing, Untouched, Stores, Counts, Burns
  <2> QED
    BY <2>1, <2>2
<1>3. ASSUME NEW p \in Senders, Create(p)
      PROVE  rows'[s] = Null
  BY <1>3, CreateFrame DEF SenderFrame
<1>4. ASSUME NEW t \in Readers, OpenLink(t) \/ Press(t) \/ Handles(t)
      PROVE  rows'[s] = Null
  BY <1>4, ReadFrame DEF ReaderFrame
<1>5. ASSUME NEW p \in Pages, Serves(p)
      PROVE  rows'[s] = Null
  <2>1. asked[p] # Null
    BY <1>5 DEF Serves, ServeRequest
  <2>2. PICK q \in Requests : q = asked[p]
    BY <2>1, Asking
  <2>3. PICK a \in Answers : Works(asked[p], a)
    BY <1>5, Serving DEF Served
  <2>4. ASSUME q.kind = "post"
        PROVE  q.slug # s
    <3>1. p \in Senders
      BY <2>1, <2>2, <2>4, PagesAssumption DEF Base, Asked, Reading, Consuming
    <3> QED
      BY <1>1, <2>1, <2>2, <3>1 DEF Owned, Owns
  <2> QED
    BY <1>2, <2>2, <2>3, <2>4
<1>6. CASE ServeLate /\ UNCHANGED <<createVars, revealVars>>
  <2>1. PICK q \in late : \E a \in Answers : Works(q, a)
    BY <1>6, ServingLate DEF ServedLate
  <2>2. q \in Requests
    BY DEF Base, Typed
  <2>3. q.kind = "post" => q.slug # s
    BY DEF Owned, LateAt
  <2> QED
    BY <1>2, <2>1, <2>2, <2>3
<1>7. ASSUME NEW p \in Pages, Break(p)
      PROVE  rows'[s] = Null
  BY <1>7 DEF Break
<1>8. ASSUME NEW x \in Slugs, Expire(x) \/ Unlock(x)
      PROVE  rows'[s] = Null
  BY <1>1, <1>8 DEF Expire, Unlock, Base, Typed
<1> QED
  BY <1>3, <1>4, <1>5, <1>6, <1>7, <1>8 DEF Next, Outside

\* Who is asked by a reader.
LEMMA ReaderAsks ==
  ASSUME Base, NEW t \in Readers, asked[t] # Null
  PROVE  asked[t].slug = tab[t].slug /\ tab[t].slug \in Offered
<1>1. Reading(t)
  BY DEF Base, Asked
<1> QED
  BY <1>1 DEF Reading, Consuming, Base, Asked

LEMMA CopyInit == Init => OnlyCopy
BY DEF Init, ServiceInit, RevealInit, OnlyCopy, Carries

\* No page gets a copy.
LEMMA CopyFrame ==
  ASSUME Base, Owned, OnlyCopy, Next, read' = read,
         \A t \in Pages : Carries(t)' =>
           answer'[t] = answer[t] /\ asked'[t] = asked[t]
  PROVE  OnlyCopy'
<1>1. \A c \in read' : c.aad \in Offered' /\ rows'[c.aad] = Null
  BY OfferedGrows, EmptiedStays DEF OnlyCopy
<1>2. ASSUME NEW t \in Pages, Carries(t)'
      PROVE  Sole(t)'
  <2>1. Carries(t) /\ Sole(t) /\ answer'[t] = answer[t] /\ asked'[t] = asked[t]
    BY <1>2 DEF Carries, OnlyCopy
  <2>2. asked[t] # Null
    BY <2>1 DEF Carries, Base, Asked, Replied
  <2>3. rows'[asked[t].slug] = Null
    BY <2>1, <2>2, ReaderAsks, EmptiedStays DEF Sole
  <2>4. ASSUME NEW o \in Pages, Carries(o)', asked'[o].slug = asked'[t].slug
        PROVE  o = t
    BY <2>1, <2>4 DEF Carries, Sole
  <2> QED
    BY <2>1, <2>3, <2>4 DEF Sole
<1> QED
  BY <1>1, <1>2 DEF OnlyCopy

\* The server hands the only copy out.
LEMMA CopyServed ==
  ASSUME Base, Owned, OnlyCopy, Next, NEW p \in Pages, Serves(p)
  PROVE  OnlyCopy'
<1>1. Served(p)
  BY Serving
<1>2. PICK a \in Answers :
        Works(asked[p], a) /\ answer' = [answer EXCEPT ![p] = a]
  BY <1>1 DEF Served
<1>3. /\ asked[p] # Null /\ answer[p] = Null
      /\ UNCHANGED <<asked, tab, read, shared>>
  BY <1>1 DEF Served, revealVars, createVars
<1>4. answer'[p] = a /\ \A o \in Pages \ {p} : answer'[o] = answer[o]
  BY <1>2 DEF Base, Typed
<1>5. CASE a.ciphertext = Null
  <2>1. \A o \in Pages : Carries(o)' => answer'[o] = answer[o] /\ asked'[o] = asked[o]
    BY <1>3, <1>4, <1>5 DEF Carries
  <2> QED
    BY <1>3, <2>1, CopyFrame
<1>6. CASE a.ciphertext # Null
  <2>1. /\ asked[p].kind = "consume" /\ asked[p].slug # 0
        /\ rows[asked[p].slug] # Null
        /\ a.ciphertext = rows[asked[p].slug].ciphertext /\ a.status = "200"
        /\ rows' = [rows EXCEPT ![asked[p].slug] = Null]
    BY <1>2, <1>6 DEF Works, Nothing, Stores, Counts, Burns
  <2>2. asked[p] \in Requests /\ Fits(asked[p]) /\ asked[p].slug \in Slugs
    BY <1>3, Asking DEF Requests
  <2>3. asked[p].slug \in LinkKeys /\ asked[p].slug \in Offered
    BY <2>1, <2>2, Numbers DEF Fits
  <2>4. p \in Readers
    BY <1>3, <2>1, PagesAssumption DEF Base, Asked, Posting
  <2>5. a.ciphertext.aad = asked[p].slug
    BY <2>1, <2>3, RowLeft
  <2>6. rows'[asked[p].slug] = Null
    BY <2>1, <2>2 DEF Base, Typed
  <2>7. \A o \in Pages : Carries(o) => asked[o].slug # asked[p].slug
    BY <2>1 DEF OnlyCopy, Sole
  <2>8. \A c \in read : c.aad # asked[p].slug
    BY <2>1 DEF OnlyCopy
  <2>9. \A c \in read' : c.aad \in Offered' /\ rows'[c.aad] = Null
    BY <1>3, OfferedGrows, EmptiedStays DEF OnlyCopy
  <2>10. ASSUME NEW o \in Pages, Carries(o)', o # p
         PROVE  Carries(o) /\ Sole(o) /\ answer'[o] = answer[o]
    BY <1>4, <2>10 DEF Carries, OnlyCopy
  <2>11. Sole(p)'
    BY <1>3, <1>4, <2>1, <2>4, <2>5, <2>6, <2>7, <2>8, <2>10 DEF Sole
  <2>12. ASSUME NEW o \in Pages, Carries(o)', o # p
         PROVE  Sole(o)'
    <3>1. Carries(o) /\ Sole(o) /\ answer'[o] = answer[o]
      BY <2>10, <2>12
    <3>2. asked[o] # Null
      BY <3>1 DEF Carries, Base, Asked, Replied
    <3>3. rows'[asked[o].slug] = Null
      BY <3>1, <3>2, ReaderAsks, EmptiedStays DEF Sole
    <3>4. asked[o].slug # asked[p].slug
      BY <2>7, <3>1
    <3>5. ASSUME NEW x \in Pages, Carries(x)', asked'[x].slug = asked'[o].slug
          PROVE  x = o
      <4>1. x # p
        BY <1>3, <3>4, <3>5
      <4> QED
        BY <1>3, <2>10, <3>1, <3>5, <4>1 DEF Sole
    <3> QED
      BY <1>3, <3>1, <3>3, <3>5 DEF Sole
  <2> QED
    BY <2>9, <2>11, <2>12 DEF OnlyCopy
<1> QED
  BY <1>5, <1>6

\* What a page shows was the only copy.
LEMMA CopyShown ==
  ASSUME Base, OnlyCopy, NEW t \in Readers, Decrypt(t),
         Decrypts(answer[t].ciphertext, tab[t].key, tab[t].slug, tab[t].passphrase)
  PROVE  Carries(t) /\ Sole(t) /\ answer[t].ciphertext \notin read
<1>1. tab[t].at = "asking" /\ answer[t] # Null
  BY DEF Decrypt, Has
<1>2. Carries(t)
  BY <1>1, Opening DEF Carries
<1>3. Sole(t)
  BY <1>2, ReadersAssumption DEF OnlyCopy
<1> QED
  BY <1>2, <1>3 DEF Sole

LEMMA CopyRead ==
  ASSUME Base, Owned, OnlyCopy, Next, NEW t \in Readers,
         OpenLink(t) \/ Press(t) \/ Handles(t)
  PROVE  OnlyCopy'
<1>1. ReaderFrame(t)
  BY ReadFrame
<1>2. \A o \in Pages : Carries(o)' =>
        o # t /\ Carries(o) /\ answer'[o] = answer[o] /\ asked'[o] = asked[o]
  BY <1>1 DEF ReaderFrame, Carries
<1>3. CASE read' = read
  BY <1>2, <1>3, CopyFrame
<1>4. CASE read' # read
  <2>1. /\ Decrypt(t)
        /\ Decrypts(answer[t].ciphertext, tab[t].key, tab[t].slug, tab[t].passphrase)
        /\ read' = read \cup {answer[t].ciphertext}
    BY <1>4 DEF OpenLink, Open, Press, Reveal, Handles, Handler, MetaArrives, Refused,
       Decrypt, Unhandled
  <2>2. Carries(t) /\ Sole(t)
    BY <2>1, CopyShown
  <2>3. asked[t].slug \in Offered
    BY <2>2, ReaderAsks, ReadersAssumption DEF Carries, Base, Asked, Replied
  <2>4. answer[t].ciphertext.aad = asked[t].slug /\ rows[asked[t].slug] = Null
    BY <2>2 DEF Sole
  <2>5. rows' = rows
    BY <1>1 DEF ReaderFrame
  <2>6. \A c \in read' : c.aad \in Offered' /\ rows'[c.aad] = Null
    BY <2>1, <2>3, <2>4, <2>5, OfferedGrows DEF OnlyCopy
  <2>7. ASSUME NEW o \in Pages, Carries(o)'
        PROVE  Sole(o)'
    <3>1. /\ o # t /\ Carries(o) /\ answer'[o] = answer[o] /\ asked'[o] = asked[o]
          /\ Sole(o)
      BY <1>2, <2>7 DEF OnlyCopy
    <3>2. asked[o].slug # asked[t].slug
      BY <2>2, <3>1 DEF Sole
    <3>3. \A c \in read' : c.aad # asked[o].slug
      BY <2>1, <2>4, <3>1, <3>2 DEF Sole
    <3>4. ASSUME NEW x \in Pages, Carries(x)', asked'[x].slug = asked'[o].slug
          PROVE  x = o
      BY <1>2, <3>1, <3>4 DEF Sole
    <3> QED
      BY <2>5, <3>1, <3>3, <3>4 DEF Sole
  <2> QED
    BY <2>6, <2>7 DEF OnlyCopy
<1> QED
  BY <1>3, <1>4

LEMMA CopyNext == Base /\ Owned /\ OnlyCopy /\ [Next]_vars => OnlyCopy'
<1> SUFFICES ASSUME Base, Owned, OnlyCopy, Next PROVE OnlyCopy'
  BY DEF OnlyCopy, Sole, Carries, Offered, vars, service, network, createVars, revealVars
<1>1. ASSUME NEW p \in Senders, Create(p)
      PROVE  OnlyCopy'
  <2>1. SenderFrame(p)
    BY <1>1, CreateFrame
  <2> QED
    BY <2>1, CopyFrame DEF SenderFrame, revealVars, Carries
<1>2. ASSUME NEW p \in Pages, Break(p), UNCHANGED <<createVars, revealVars>>
      PROVE  OnlyCopy'
  <2>1. answer' = [answer EXCEPT ![p] = Answer(Lost)] /\ asked' = asked /\ read' = read
    BY <1>2 DEF Break, revealVars
  <2>2. Answer(Lost).ciphertext = Null
    BY AnswerType DEF Statuses
  <2>3. \A o \in Pages : Carries(o)' => answer'[o] = answer[o]
    BY <2>1, <2>2 DEF Carries, Base, Typed
  <2> QED
    BY <2>1, <2>3, CopyFrame
<1>3. CASE ServeLate /\ UNCHANGED <<createVars, revealVars>>
  BY <1>3, CopyFrame DEF ServeLate, revealVars
<1>4. ASSUME NEW s \in Slugs, Expire(s) \/ Unlock(s), UNCHANGED <<createVars, revealVars>>
      PROVE  OnlyCopy'
  BY <1>4, CopyFrame DEF Expire, Unlock, network, revealVars
<1> QED
  BY <1>1, <1>2, <1>3, <1>4, CopyServed, CopyRead DEF Next, Outside

ShownOnce ==
  \A t \in Readers : tab'[t].at = "secret" /\ tab[t].at # "secret" =>
    answer[t].ciphertext \notin read

LEMMA ShownOnceStep == Base /\ OnlyCopy /\ [Next]_vars => [ShownOnce]_vars
<1> SUFFICES ASSUME Base, OnlyCopy, Next,
                    NEW t \in Readers, tab'[t].at = "secret", tab[t].at # "secret"
             PROVE  answer[t].ciphertext \notin read
  BY DEF ShownOnce
<1>1. tab' # tab
  OBVIOUS
<1>2. PICK o \in Readers : OpenLink(o) \/ Press(o) \/ Handles(o)
  BY <1>1, CreateFrame DEF Next, SenderFrame, Serves, Outside, revealVars
<1>3. o = t
  BY <1>2, ReadFrame DEF ReaderFrame
<1>4. tab \in [Readers -> Tabs]
  BY DEF Base, Typed
<1>5. /\ Decrypt(t)
      /\ Decrypts(answer[t].ciphertext, tab[t].key, tab[t].slug, tab[t].passphrase)
  <2>1. ~OpenLink(t)
    BY <1>4 DEF OpenLink, Open, Closed, Tabs
  <2>2. ~Press(t)
    BY <1>4 DEF Press, Reveal, Tabs
  <2>3. ~MetaArrives(t)
    BY <1>4 DEF MetaArrives, Closed, Tabs
  <2>4. ~Refused(t)
    BY <1>4 DEF Refused, Closed, Tabs
  <2>5. ~Unhandled(t)
    BY DEF Unhandled
  <2>6. Decrypt(t)
    BY <1>2, <1>3, <2>1, <2>2, <2>3, <2>4, <2>5 DEF Handles, Handler
  <2> QED
    BY <1>4, <2>6 DEF Decrypt, Closed, Tabs
<1> QED
  BY <1>5, CopyShown

\* A secret is shown once: when a tab comes to show one, no tab has shown it
\* before, of any number of tabs that have the link and whatever they sent.
THEOREM OneReaderOnly == Spec => OneReader
<1>1. Spec => [][ShownOnce]_vars
  BY BaseInit, BaseNext, OwnedInit, OwnedNext, CopyInit, CopyNext, ShownOnceStep,
     PTL DEF Spec
<1> QED
  BY <1>1 DEF OneReader, ShownOnce
----------------------------------------------------------------------------
(* Tabs know whether a passphrase is wanted.                               *)

LEMMA GatesInit == Init => Gates
BY DEF Init, RevealInit, Closed, Gates, Gated

\* The gate of an offered secret does not change.
LEMMA VerifierStays ==
  ASSUME Base, Owned, Next, NEW s \in Offered, rows'[s] # Null
  PROVE  rows[s] # Null /\ rows'[s].verifier = rows[s].verifier
<1>1. s \in Slugs /\ s # 0 /\ rows[s] # Null
  BY OfferedSlugs, Numbers, EmptiedStays
<1>2. ASSUME NEW q \in Requests, NEW a, Works(q, a)
      PROVE  rows'[s].verifier = rows[s].verifier
  <2>1. CASE q.slug # s
    BY <1>1, <1>2, <2>1, WorksElsewhere
  <2>2. CASE q.slug = s /\ Nothing(q, a)
    BY <2>2 DEF Nothing, Untouched
  <2>3. CASE q.slug = s /\ Counts(q, a)
    <3>1. PICK row \in Rows :
            rows' = [rows EXCEPT ![q.slug] = row] /\ row.verifier = rows[q.slug].verifier
      BY <2>3 DEF Counts
    <3> QED
      BY <1>1, <2>3, <3>1 DEF Base, Typed
  <2>4. CASE q.slug = s /\ Burns(q, a)
    BY <1>1, <2>4 DEF Burns, Base, Typed
  <2> QED
    BY <1>1, <1>2, <2>1, <2>2, <2>3, <2>4 DEF Works, Stores
<1>3. ASSUME NEW p \in Senders, Create(p)
      PROVE  rows' = rows
  BY <1>3, CreateFrame DEF SenderFrame
<1>4. ASSUME NEW t \in Readers, OpenLink(t) \/ Press(t) \/ Handles(t)
      PROVE  rows' = rows
  BY <1>4, ReadFrame DEF ReaderFrame
<1>5. ASSUME NEW p \in Pages, Serves(p)
      PROVE  rows'[s].verifier = rows[s].verifier
  BY <1>2, <1>5, Serving, Asking DEF Served
<1>6. CASE ServeLate /\ UNCHANGED <<createVars, revealVars>>
  <2>1. PICK q \in late : \E a \in Answers : Works(q, a)
    BY <1>6, ServingLate DEF ServedLate
  <2>2. PICK a \in Answers : Works(q, a)
    BY <2>1
  <2>3. rows'[s].verifier = rows[s].verifier
    BY <1>2, <2>2 DEF Base, Typed
  <2> QED
    BY <1>1, <2>3
<1>7. ASSUME NEW p \in Pages, Break(p)
      PROVE  rows' = rows
  BY <1>7 DEF Break
<1>8. ASSUME NEW x \in Slugs, Expire(x)
      PROVE  rows'[s].verifier = rows[s].verifier
  BY <1>1, <1>8 DEF Expire, Base, Typed
<1>9. ASSUME NEW x \in Slugs, Unlock(x)
      PROVE  rows'[s].verifier = rows[s].verifier
  <2>1. rows[s] \in Rows
    BY <1>1, SlugRow
  <2>2. rows'[s] = rows[s] \/ rows'[s] = [rows[s] EXCEPT !.locked = FALSE]
    BY <1>1, <1>9 DEF Unlock, Base, Typed
  <2> QED
    BY <2>1, <2>2 DEF Rows
<1> QED
  BY <1>1, <1>3, <1>4, <1>5, <1>6, <1>7, <1>8, <1>9 DEF Next, Outside

LEMMA GateKept ==
  ASSUME Base, Owned, Next, NEW t \in Readers, tab'[t].slug = tab[t].slug,
         tab[t].slug \in Offered, NEW gated \in BOOLEAN, Gate(t, gated)
  PROVE  Gate(t, gated)'
<1>1. PICK s \in Offered : s = tab[t].slug
  OBVIOUS
<1>2. rows'[s] # Null => rows[s] # Null /\ rows'[s].verifier = rows[s].verifier
  BY VerifierStays
<1> QED
  BY <1>1, <1>2 DEF Gate

LEMMA GatedFrame ==
  ASSUME Base, Owned, Gates, Next, NEW t \in Readers,
         tab'[t] = tab[t], answer'[t] = answer[t] \/ answer'[t] = Null
                                              \/ answer'[t].status # "200"
  PROVE  Gated(t)'
<1>1. Gated(t)
  BY DEF Gates
<1>2. tab[t] \in Tabs /\ answer[t] \in Answers \cup {Null}
  BY ReadersAssumption DEF Base, Typed
<1>3. CASE tab[t].at \in {"loading", "ready", "asking"}
  <2>1. tab[t].slug \in Offered
    BY <1>3 DEF Base, Asked
  <2>2. PICK needs \in BOOLEAN : needs = tab[t].needsPassphrase
    BY <1>2 DEF Tabs
  <2>3. Gate(t, needs) => Gate(t, needs)'
    BY <2>1, GateKept
  <2>4. ASSUME answer[t] # Null, Gate(t, answer[t].gated), answer'[t] = answer[t]
        PROVE  Gate(t, answer[t].gated)'
    <3>1. PICK gated \in BOOLEAN : gated = answer[t].gated
      BY <1>2, <2>4 DEF Answers
    <3>2. Gate(t, gated)'
      BY <2>1, <2>4, <3>1, GateKept
    <3> QED
      BY <2>4, <3>1, <3>2 DEF Gate
  <2>5. tab[t].at \in {"ready", "asking"} => Gate(t, tab[t].needsPassphrase)'
    BY <1>1, <2>2, <2>3 DEF Gated, Gate
  <2> QED
    BY <1>1, <2>4, <2>5 DEF Gated
<1>4. CASE tab[t].at \notin {"loading", "ready", "asking"}
  BY <1>4 DEF Gated
<1> QED
  BY <1>3, <1>4

\* A tab that is told, or has its button pressed.
LEMMA GatedRead ==
  ASSUME Base, Owned, Gates, Next, NEW t \in Readers,
         OpenLink(t) \/ Press(t) \/ Handles(t)
  PROVE  Gated(t)'
<1>1. ReaderFrame(t)
  BY ReadFrame
<1>2. Gated(t) /\ tab \in [Readers -> Tabs] /\ tab[t] \in Tabs /\ answer'[t] = Null
  BY <1>1 DEF Gates, Base, Typed, ReaderFrame
<1>3. ASSUME tab'[t].at \notin {"ready", "asking"}
      PROVE  Gated(t)'
  BY <1>2, <1>3 DEF Gated
<1>4. CASE OpenLink(t)
  <2>1. tab'[t].at \in {"404", "loading"}
    BY <1>2, <1>4 DEF OpenLink, Open, Closed
  <2> QED
    BY <1>3, <2>1
<1>5. CASE Press(t)
  <2>1. PICK passphrase \in IF tab[t].needsPassphrase THEN Passphrases ELSE {Null} :
          tab' = [tab EXCEPT ![t].at = "asking", ![t].passphrase = passphrase]
    BY <1>5 DEF Press, Reveal
  <2>2. /\ tab'[t].at = "asking" /\ tab'[t].passphrase = passphrase
        /\ tab'[t].slug = tab[t].slug
        /\ tab'[t].needsPassphrase = tab[t].needsPassphrase
    BY <1>2, <2>1 DEF Tabs
  <2>3. passphrase = Null <=> ~tab[t].needsPassphrase
    BY <1>2, <2>1, NullAssumption DEF Tabs
  <2>4. tab[t].at = "ready"
    BY <1>5 DEF Press, Reveal
  <2>5. rows' = rows
    BY <1>1 DEF ReaderFrame
  <2> QED
    BY <1>2, <2>2, <2>3, <2>4, <2>5 DEF Gated, Gate
<1>6. CASE MetaArrives(t)
  <2>1. CASE /\ Has(t, "loading", {"200"})
             /\ tab' = [tab EXCEPT ![t].at = "ready",
                                   ![t].needsPassphrase = answer[t].gated]
    <3>1. /\ tab'[t].at = "ready" /\ tab'[t].slug = tab[t].slug
          /\ tab'[t].needsPassphrase = answer[t].gated
      BY <1>2, <2>1 DEF Tabs
    <3>2. Gate(t, answer[t].gated)
      BY <1>2, <2>1 DEF Has, Gated
    <3>3. rows' = rows
      BY <1>1 DEF ReaderFrame
    <3> QED
      BY <3>1, <3>2, <3>3 DEF Gated, Gate
  <2>2. CASE tab' = [tab EXCEPT ![t] = [Closed EXCEPT !.at = "404"]]
    BY <1>2, <1>3, <2>2 DEF Closed
  <2> QED
    BY <1>6, <2>1, <2>2 DEF MetaArrives
<1>7. CASE Refused(t)
  <2>1. CASE /\ Has(t, "asking", {"403"})
             /\ tab' = [tab EXCEPT ![t].at = "ready", ![t].passphrase = Null]
    <3>1. /\ tab'[t].at = "ready" /\ tab'[t].slug = tab[t].slug
          /\ tab'[t].needsPassphrase = tab[t].needsPassphrase
          /\ tab[t].at = "asking"
      BY <1>2, <2>1 DEF Tabs, Has
    <3>2. rows' = rows
      BY <1>1 DEF ReaderFrame
    <3> QED
      BY <1>2, <3>1, <3>2 DEF Gated, Gate
  <2>2. CASE \/ tab' = [tab EXCEPT ![t] = [Closed EXCEPT !.at = "404"]]
             \/ tab' = [tab EXCEPT ![t] = [Closed EXCEPT !.at = "locked"]]
    BY <1>2, <1>3, <2>2 DEF Closed
  <2> QED
    BY <1>7, <2>1, <2>2 DEF Refused
<1>8. CASE Decrypt(t)
  <2>1. tab'[t].at \in {"404", "secret"}
    BY <1>2, <1>8 DEF Decrypt, Closed
  <2> QED
    BY <1>3, <2>1
<1>9. CASE Unhandled(t)
  <2>1. tab' = tab
    BY <1>9 DEF Unhandled
  <2> QED
    BY <1>2, <2>1, GatedFrame
<1> QED
  BY <1>4, <1>5, <1>6, <1>7, <1>8, <1>9 DEF Handles, Handler

LEMMA GatedServed ==
  ASSUME Base, Owned, Gates, Next, NEW t \in Readers, Serves(t)
  PROVE  Gated(t)'
<1>1. t \in Pages /\ Gated(t)
  BY ReadersAssumption DEF Gates
<1>2. Served(t)
  BY <1>1, Serving
<1>3. PICK a \in Answers :
        Works(asked[t], a) /\ answer' = [answer EXCEPT ![t] = a]
  BY <1>2 DEF Served
<1>4. answer'[t] = a /\ tab' = tab /\ asked[t] # Null
  BY <1>1, <1>2, <1>3 DEF Served, revealVars, Base, Typed
<1>5. CASE tab[t].at = "loading" /\ a.status = "200"
  <2>1. asked[t].kind = "meta" /\ asked[t].slug = tab[t].slug
    BY <1>4, <1>5 DEF Base, Asked, Reading, Consuming
  <2>2. Nothing(asked[t], a)
    BY <1>3, <2>1 DEF Works, Stores, Counts, Burns
  <2>3. rows' = rows /\ (a.gated <=> rows[tab[t].slug].verifier # Null)
    BY <1>5, <2>1, <2>2 DEF Nothing, Untouched
  <2> QED
    BY <1>4, <1>5, <2>3 DEF Gated, Gate
<1>6. CASE a.status # "200"
  BY <1>4, <1>6, GatedFrame
<1>7. CASE tab[t].at # "loading"
  <2>1. CASE tab[t].at \in {"ready", "asking"}
    <3>1. tab[t].slug \in Offered /\ tab[t] \in Tabs
      BY <2>1 DEF Base, Typed, Asked
    <3>2. PICK needs \in BOOLEAN : needs = tab[t].needsPassphrase
      BY <3>1 DEF Tabs
    <3>3. Gate(t, needs)'
      BY <1>1, <1>4, <2>1, <3>1, <3>2, GateKept DEF Gated
    <3> QED
      BY <1>1, <1>4, <1>7, <3>2, <3>3 DEF Gated, Gate
  <2>2. CASE tab[t].at \notin {"ready", "asking"}
    BY <1>4, <1>7, <2>2 DEF Gated
  <2> QED
    BY <2>1, <2>2
<1> QED
  BY <1>5, <1>6, <1>7

LEMMA GatesNext == Base /\ Owned /\ Gates /\ [Next]_vars => Gates'
<1> SUFFICES ASSUME Base, Owned, Gates, Next, NEW t \in Readers
             PROVE  Gated(t)'
  BY DEF Gates, Gated, Gate, vars, service, network, revealVars
<1>1. t \in Pages /\ t \notin Senders
  BY PagesAssumption
<1>2. ASSUME NEW p \in Senders, Create(p)
      PROVE  Gated(t)'
  BY <1>1, <1>2, CreateFrame, GatedFrame DEF SenderFrame, revealVars
<1>3. ASSUME NEW o \in Readers, OpenLink(o) \/ Press(o) \/ Handles(o)
      PROVE  Gated(t)'
  <2>1. CASE o = t
    BY <1>3, <2>1, GatedRead
  <2>2. CASE o # t
    BY <1>1, <1>3, <2>2, ReadFrame, GatedFrame DEF ReaderFrame
  <2> QED
    BY <2>1, <2>2
<1>4. ASSUME NEW p \in Pages, Serves(p)
      PROVE  Gated(t)'
  <2>1. CASE p = t
    BY <1>4, <2>1, GatedServed
  <2>2. CASE p # t
    <3>1. tab' = tab /\ answer'[t] = answer[t]
      BY <1>1, <1>4, <2>2, Serving DEF Served, revealVars, Base, Typed
    <3> QED
      BY <3>1, GatedFrame
  <2> QED
    BY <2>1, <2>2
<1>5. ASSUME NEW p \in Pages, Break(p), UNCHANGED <<createVars, revealVars>>
      PROVE  Gated(t)'
  <2>1. Answer(Lost).status # "200"
    BY AnswerType DEF Statuses, Lost
  <2>2. tab' = tab /\ (answer'[t] = answer[t] \/ answer'[t] = Answer(Lost))
    BY <1>1, <1>5 DEF Break, revealVars, Base, Typed
  <2> QED
    BY <2>1, <2>2, GatedFrame
<1>6. CASE ServeLate /\ UNCHANGED <<createVars, revealVars>>
  BY <1>6, GatedFrame DEF ServeLate, revealVars
<1>7. ASSUME NEW s \in Slugs, Expire(s) \/ Unlock(s), UNCHANGED <<createVars, revealVars>>
      PROVE  Gated(t)'
  BY <1>7, GatedFrame DEF Expire, Unlock, network, revealVars
<1> QED
  BY <1>2, <1>3, <1>4, <1>5, <1>6, <1>7 DEF Next, Outside
----------------------------------------------------------------------------
(* With undamaged links, what is burned is shown or lost on the way.       *)

LEMMA FittingInit == Init => Fitting
BY ReadersAssumption DEF Init, ServiceInit, RevealInit, Closed, Fitting, Fit, Carries

\* The proof that burned a secret was made with its own passphrase.
LEMMA SamePassphrase ==
  ASSUME Base, Gates, NEW t \in Readers, asked[t] # Null, NEW a,
         Works(asked[t], a), a.ciphertext # Null
  PROVE  a.ciphertext = EncryptSecret(tab[t].slug, tab[t].slug, tab[t].passphrase)
<1>1. Burns(asked[t], a) /\ a.ciphertext = rows[asked[t].slug].ciphertext
  BY DEF Works, Nothing, Stores, Counts, Burns
<1>2. PICK s \in LinkKeys : s = asked[t].slug /\ s = tab[t].slug
  BY ReaderAsks, OfferedSlugs
<1>3. s \in Slugs /\ s # 0
  BY Numbers
<1>4. rows[s] # Null /\ rows[s].verifier \in {Null, asked[t].verifier}
  BY <1>1, <1>2 DEF Burns
<1>5. Consuming(t) /\ tab[t] \in Tabs
  BY <1>1 DEF Burns, Base, Typed, Asked, Reading
<1>6. PICK mine \in Passphrases \cup {Null} : mine = tab[t].passphrase
  BY <1>5 DEF Tabs
<1>7. PICK its \in Passphrases \cup {Null} :
        /\ rows[s].ciphertext = EncryptSecret(s, s, its)
        /\ rows[s].verifier = Proof(its, s)
  BY <1>3, <1>4 DEF Base, Asked, Sealed
<1>8. asked[t].verifier = Proof(mine, s)
  BY <1>2, <1>5, <1>6 DEF Consuming
<1>9. mine = Null <=> rows[s].verifier = Null
  BY <1>2, <1>4, <1>5, <1>6 DEF Gates, Gated, Gate, Consuming
<1>10. its = Null <=> rows[s].verifier = Null
  BY <1>3, <1>7, Proofs
<1>11. mine = its
  <2>1. CASE rows[s].verifier = Null
    BY <1>9, <1>10, <2>1
  <2>2. CASE rows[s].verifier # Null
    <3>1. Proof(its, s) = Proof(mine, s) /\ its # Null /\ mine # Null
      BY <1>4, <1>7, <1>8, <1>9, <1>10, <2>2
    <3>2. DeriveVerifier(its, s) = DeriveVerifier(mine, s)
      BY <3>1 DEF Proof
    <3> QED
      BY <3>2 DEF DeriveVerifier
  <2> QED
    BY <2>1, <2>2
<1> QED
  BY <1>1, <1>2, <1>6, <1>7, <1>11

LEMMA FitFrame ==
  ASSUME NEW t \in Readers, Fit(t), tab'[t] = tab[t],
         answer'[t] = answer[t] \/ ~Carries(t)'
  PROVE  Fit(t)'
BY DEF Fit, Carries

LEMMA FitRead ==
  ASSUME Base, ~Damaged, Fitting, NEW t \in Readers,
         OpenLink(t) \/ Press(t) \/ Handles(t)
  PROVE  Fit(t)'
<1>1. ~Carries(t)' /\ tab \in [Readers -> Tabs] /\ tab[t] \in Tabs
  BY ReadFrame DEF ReaderFrame, Carries, Base, Typed
<1>2. tab[t].at \in {"loading", "ready", "asking"} => tab[t].key = tab[t].slug
  BY DEF Fitting, Fit
<1>3. ASSUME tab'[t].at \in {"loading", "ready", "asking"}
      PROVE  tab'[t].key = tab'[t].slug
  <2>1. CASE OpenLink(t)
    <3>1. PICK link \in Received : Open(t, link)
      BY <2>1 DEF OpenLink
    <3>2. link.key = link.slug
      BY ReceivedLinks
    <3>3. \/ tab'[t] = [Closed EXCEPT !.at = "404"]
          \/ tab'[t] = [Closed EXCEPT !.at = "loading", !.slug = link.slug,
                                      !.key = link.key]
      BY <1>1, <3>1 DEF Open
    <3> QED
      BY <1>3, <3>2, <3>3 DEF Closed
  <2>2. CASE Press(t)
    <3>1. PICK passphrase :
            tab' = [tab EXCEPT ![t].at = "asking", ![t].passphrase = passphrase]
      BY <2>2 DEF Press, Reveal
    <3>2. tab'[t].slug = tab[t].slug /\ tab'[t].key = tab[t].key
      BY <1>1, <3>1 DEF Tabs
    <3> QED
      BY <1>2, <2>2, <3>2 DEF Press, Reveal
  <2>3. CASE MetaArrives(t)
    <3>1. \/ tab'[t] = [Closed EXCEPT !.at = "404"]
          \/ /\ tab[t].at = "loading"
             /\ tab'[t].slug = tab[t].slug /\ tab'[t].key = tab[t].key
      BY <1>1, <2>3 DEF MetaArrives, Has, Tabs
    <3> QED
      BY <1>2, <1>3, <3>1 DEF Closed
  <2>4. CASE Refused(t)
    <3>1. \/ tab'[t] \in {[Closed EXCEPT !.at = "404"], [Closed EXCEPT !.at = "locked"]}
          \/ /\ tab[t].at = "asking"
             /\ tab'[t].slug = tab[t].slug /\ tab'[t].key = tab[t].key
      BY <1>1, <2>4 DEF Refused, Has, Tabs
    <3> QED
      BY <1>2, <1>3, <3>1 DEF Closed
  <2>5. CASE Decrypt(t)
    BY <1>1, <1>3, <2>5 DEF Decrypt, Closed
  <2>6. CASE Unhandled(t)
    BY <1>2, <1>3, <2>6 DEF Unhandled
  <2> QED
    BY <2>1, <2>2, <2>3, <2>4, <2>5, <2>6 DEF Handles, Handler
<1> QED
  BY <1>1, <1>3 DEF Fit

LEMMA FittingNext ==
  ASSUME ~Damaged
  PROVE  Base /\ Gates /\ Fitting /\ [Next]_vars => Fitting'
<1> SUFFICES ASSUME Base, Gates, Fitting, Next, NEW t \in Readers
             PROVE  Fit(t)'
  BY DEF Fitting, Fit, Carries, vars, service, network, revealVars
<1>1. t \in Pages /\ t \notin Senders /\ Fit(t)
  BY PagesAssumption DEF Fitting
<1>2. ASSUME NEW p \in Senders, Create(p)
      PROVE  Fit(t)'
  BY <1>1, <1>2, CreateFrame, FitFrame DEF SenderFrame, revealVars
<1>3. ASSUME NEW o \in Readers, OpenLink(o) \/ Press(o) \/ Handles(o)
      PROVE  Fit(t)'
  <2>1. CASE o = t
    BY <1>3, <2>1, FitRead
  <2>2. CASE o # t
    BY <1>1, <1>3, <2>2, ReadFrame, FitFrame DEF ReaderFrame
  <2> QED
    BY <2>1, <2>2
<1>4. ASSUME NEW p \in Pages, Serves(p)
      PROVE  Fit(t)'
  <2>1. Served(p)
    BY <1>4, Serving
  <2>2. PICK a \in Answers :
          Works(asked[p], a) /\ answer' = [answer EXCEPT ![p] = a]
    BY <2>1 DEF Served
  <2>3. tab' = tab /\ asked[p] # Null
    BY <2>1 DEF Served, revealVars
  <2>4. CASE p # t
    BY <1>1, <2>2, <2>3, <2>4, FitFrame DEF Base, Typed
  <2>5. CASE p = t
    <3>1. answer'[t] = a
      BY <1>1, <2>2, <2>5 DEF Base, Typed
    <3>2. a.ciphertext # Null =>
            a.ciphertext = EncryptSecret(tab[t].slug, tab[t].slug, tab[t].passphrase)
      BY <2>2, <2>3, <2>5, SamePassphrase
    <3> QED
      BY <1>1, <2>3, <3>1, <3>2 DEF Fit, Carries
  <2> QED
    BY <2>4, <2>5
<1>5. ASSUME NEW p \in Pages, Break(p), UNCHANGED <<createVars, revealVars>>
      PROVE  Fit(t)'
  <2>1. Answer(Lost).ciphertext = Null
    BY AnswerType DEF Statuses
  <2>2. tab' = tab /\ (answer'[t] = answer[t] \/ answer'[t] = Answer(Lost))
    BY <1>1, <1>5 DEF Break, revealVars, Base, Typed
  <2> QED
    BY <1>1, <2>1, <2>2, FitFrame DEF Carries
<1>6. CASE ServeLate /\ UNCHANGED <<createVars, revealVars>>
  BY <1>1, <1>6, FitFrame DEF ServeLate, revealVars
<1>7. ASSUME NEW s \in Slugs, Expire(s) \/ Unlock(s), UNCHANGED <<createVars, revealVars>>
      PROVE  Fit(t)'
  BY <1>1, <1>7, FitFrame DEF Expire, Unlock, network, revealVars
<1> QED
  BY <1>2, <1>3, <1>4, <1>5, <1>6, <1>7 DEF Next, Outside

\* What became of a ciphertext that was burned.
Accounted(c) ==
  \/ c \in read
  \/ \E q \in astray : q.kind = "consume" /\ q.slug = c.aad
  \/ \E t \in Readers : answer[t] # Null /\ answer[t].ciphertext = c

LEMMA AccountedRead ==
  ASSUME Base, OnlyCopy, Fitting, ~Damaged, NEW t \in Readers,
         OpenLink(t) \/ Press(t) \/ Handles(t),
         NEW c \in Ciphertexts, Accounted(c)
  PROVE  Accounted(c)'
<1>1. ReaderFrame(t) /\ read \subseteq read'
  BY ReadFrame DEF OpenLink, Open, Press, Reveal, Handles, Handler, MetaArrives, Refused,
     Decrypt, Unhandled
<1>2. CASE c \in read
  BY <1>1, <1>2 DEF Accounted
<1>3. CASE \E q \in astray : q.kind = "consume" /\ q.slug = c.aad
  BY <1>1, <1>3 DEF ReaderFrame, Accounted
<1>4. ASSUME NEW o \in Readers, o # t, answer[o] # Null, answer[o].ciphertext = c
      PROVE  Accounted(c)'
  BY <1>1, <1>4, ReadersAssumption DEF ReaderFrame, Accounted
<1>5. CASE answer[t] # Null /\ answer[t].ciphertext = c
  <2>1. Carries(t) /\ Sole(t) /\ Fit(t)
    BY <1>5, NullIsNone, ReadersAssumption DEF Carries, OnlyCopy, Fitting
  <2>2. asked[t] # Null /\ Reading(t)
    BY <1>5, ReadersAssumption DEF Base, Asked, Replied
  <2>3. tab[t].at = "asking" /\ answer[t].status = "200"
    BY <2>1, <2>2 DEF Sole, Reading, Consuming
  <2>4. Decrypt(t)
    <3>1. ~OpenLink(t) /\ ~Press(t)
      BY <2>2, <2>3 DEF OpenLink, Open, Quiet, Press, Reveal
    <3>2. ~MetaArrives(t) /\ ~Refused(t)
      BY <2>3 DEF MetaArrives, Refused, Has
    <3>3. ~Unhandled(t)
      BY <2>3, AnswerType DEF Unhandled, Statuses, Lost
    <3> QED
      BY <3>1, <3>2, <3>3 DEF Handles, Handler
  <2>5. Decrypts(answer[t].ciphertext, tab[t].key, tab[t].slug, tab[t].passphrase)
    BY <2>1, <2>3 DEF Fit, Decrypts, Opens, EncryptSecret
  <2> QED
    BY <1>5, <2>4, <2>5 DEF Decrypt, Accounted
<1> QED
  BY <1>2, <1>3, <1>4, <1>5 DEF Accounted

\* A step that takes no answer from a reader but gives it up for lost.
LEMMA AccountedFrame ==
  ASSUME NEW c, Accounted(c), read \subseteq read', astray \subseteq astray',
         \A t \in Readers : answer[t] # Null /\ answer[t].ciphertext = c =>
           answer'[t] = answer[t] \/ \E q \in astray' : q.kind = "consume" /\ q.slug = c.aad
  PROVE  Accounted(c)'
BY DEF Accounted

LEMMA AccountedServed ==
  ASSUME Base, NEW p \in Pages, Serves(p), NEW c \in burned' \ burned
  PROVE  Accounted(c)'
<1>1. Served(p)
  BY Serving
<1>2. PICK a \in Answers :
        /\ Works(asked[p], a)
        /\ answer' = [answer EXCEPT ![p] = a]
        /\ astray' = IF a.status = "500" THEN astray \cup Effective(asked[p])
                                        ELSE astray
  BY <1>1 DEF Served
<1>3. asked[p] # Null /\ asked[p] \in Requests /\ Fits(asked[p])
  BY <1>1, Asking DEF Served
<1>4. Burns(asked[p], a)
  BY <1>2 DEF Works, Nothing, Untouched, Stores, Counts
<1>5. /\ asked[p].kind = "consume" /\ asked[p].slug \in LinkKeys
      /\ rows[asked[p].slug] # Null /\ c = rows[asked[p].slug].ciphertext
  BY <1>3, <1>4, Numbers DEF Burns, Requests
<1>6. c.aad = asked[p].slug
  BY <1>5, RowLeft
<1>7. p \in Readers
  BY <1>3, <1>5, PagesAssumption DEF Base, Asked, Posting
<1>8. CASE a.status = "500"
  <2>1. asked[p] \in astray'
    BY <1>2, <1>5, <1>8, EffectiveSelf
  <2> QED
    BY <1>5, <1>6, <2>1 DEF Accounted
<1>9. CASE a.status # "500"
  <2>1. answer'[p] = a /\ a # Null /\ a.ciphertext = c
    BY <1>2, <1>4, <1>5, <1>9, NullIsNone DEF Burns, Base, Typed
  <2> QED
    BY <1>7, <2>1 DEF Accounted
<1> QED
  BY <1>8, <1>9

LEMMA WastedInit == Init => NotWasted
BY DEF Init, ServiceInit, NotWasted

LEMMA WastedNext ==
  ASSUME ~Damaged
  PROVE  Base /\ Told /\ OnlyCopy /\ Fitting /\ NotWasted /\ [Next]_vars => NotWasted'
<1> SUFFICES ASSUME Base, Told, OnlyCopy, Fitting, NotWasted, Next,
                    NEW c \in burned'
             PROVE  Accounted(c)'
  BY DEF NotWasted, Accounted, vars, service, network, revealVars
<1>1. c \in burned => c \in Ciphertexts /\ Accounted(c)
  BY DEF NotWasted, Accounted, Base, Typed
<1>2. ASSUME NEW p \in Senders, Create(p)
      PROVE  Accounted(c)'
  <2>1. SenderFrame(p)
    BY <1>2, CreateFrame
  <2>2. \A t \in Readers : answer'[t] = answer[t]
    BY <2>1, PagesAssumption DEF SenderFrame
  <2> QED
    BY <1>1, <2>1, <2>2, AccountedFrame DEF SenderFrame, revealVars
<1>3. ASSUME NEW t \in Readers, OpenLink(t) \/ Press(t) \/ Handles(t)
      PROVE  Accounted(c)'
  BY <1>1, <1>3, ReadFrame, AccountedRead DEF ReaderFrame
<1>4. ASSUME NEW p \in Pages, Serves(p)
      PROVE  Accounted(c)'
  <2>1. Served(p)
    BY <1>4, Serving
  <2>2. /\ astray \subseteq astray' /\ read' = read /\ answer[p] = Null
        /\ \A o \in Pages \ {p} : answer'[o] = answer[o]
    BY <2>1 DEF Served, revealVars, Base, Typed
  <2>3. CASE c \in burned
    BY <1>1, <2>2, <2>3, AccountedFrame, ReadersAssumption
  <2>4. CASE c \notin burned
    BY <1>4, <2>4, AccountedServed
  <2> QED
    BY <2>3, <2>4
<1>5. CASE ServeLate /\ UNCHANGED <<createVars, revealVars>>
  <2>1. ServedLate
    BY <1>5, ServingLate
  <2>2. PICK q \in late : \E a \in Answers : Works(q, a)
    BY <2>1 DEF ServedLate
  <2>3. PICK a \in Answers : Works(q, a)
    BY <2>2
  <2>4. UNCHANGED <<answer, astray, read>> /\ q \in astray
    BY <2>1 DEF ServedLate, revealVars, Told
  <2>5. CASE c \in burned
    BY <1>1, <2>4, <2>5, AccountedFrame
  <2>6. CASE c \notin burned
    <3>1. Burns(q, a)
      BY <2>3, <2>6 DEF Works, Nothing, Untouched, Stores, Counts
    <3>2. /\ q.kind = "consume" /\ q.slug \in LinkKeys
          /\ rows[q.slug] # Null /\ c = rows[q.slug].ciphertext
      BY <2>6, <3>1, Numbers DEF Burns, Base, Typed, Requests
    <3>3. c.aad = q.slug
      BY <3>2, RowLeft
    <3> QED
      BY <2>4, <3>2, <3>3 DEF Accounted
  <2> QED
    BY <2>5, <2>6
<1>6. ASSUME NEW p \in Pages, Break(p), UNCHANGED <<createVars, revealVars>>
      PROVE  Accounted(c)'
  <2>1. /\ astray' = astray \cup Effective(asked[p]) /\ read' = read
        /\ \A o \in Pages \ {p} : answer'[o] = answer[o]
        /\ burned' = burned
    BY <1>6 DEF Break, revealVars, Base, Typed
  <2>2. ASSUME NEW t \in Readers, answer[t] # Null, answer[t].ciphertext = c
        PROVE  answer'[t] = answer[t]
               \/ \E q \in astray' : q.kind = "consume" /\ q.slug = c.aad
    <3>1. Sole(t)
      BY <1>1, <2>1, <2>2, NullIsNone, ReadersAssumption DEF OnlyCopy, Carries
    <3>2. CASE t = p
      <4>1. asked[p] \in astray'
        BY <2>1, <3>1, <3>2, EffectiveSelf DEF Sole
      <4> QED
        BY <2>2, <3>1, <3>2, <4>1 DEF Sole
    <3>3. CASE t # p
      BY <2>1, <3>3, ReadersAssumption
    <3> QED
      BY <3>2, <3>3
  <2> QED
    BY <1>1, <2>1, <2>2, AccountedFrame
<1>7. ASSUME NEW s \in Slugs, Expire(s) \/ Unlock(s), UNCHANGED <<createVars, revealVars>>
      PROVE  Accounted(c)'
  BY <1>1, <1>7, AccountedFrame DEF Expire, Unlock, network, revealVars
<1> QED
  BY <1>2, <1>3, <1>4, <1>5, <1>6, <1>7 DEF Next, Outside

\* The whole invariant.
LEMMA ExchangeInvariant == Spec => []ExchangeInv
<1>1. Init => ExchangeInv
  BY BaseInit, OwnedInit, ToldInit, OrphansInit, CopyInit, GatesInit, FittingInit,
     WastedInit DEF ExchangeInv
<1>2. ExchangeInv /\ [Next]_vars => ExchangeInv'
  <2> SUFFICES ASSUME ExchangeInv, [Next]_vars PROVE ExchangeInv'
    OBVIOUS
  <2>1. Base' /\ Owned' /\ Told' /\ NoOrphans' /\ OnlyCopy' /\ Gates'
    BY BaseNext, OwnedNext, ToldNext, OrphansNext, CopyNext, GatesNext DEF ExchangeInv
  <2>2. ASSUME ~Damaged
        PROVE  Fitting' /\ NotWasted'
    BY <2>2, FittingNext, WastedNext DEF ExchangeInv
  <2> QED
    BY <2>1, <2>2 DEF ExchangeInv
<1> QED
  BY <1>1, <1>2, PTL DEF Spec

\* With the link that was sent, no secret is burned in vain: one that left the
\* table by a consume was shown, or its answer is coming, or a page asked for it
\* and got a 500 or nothing.
THEOREM NothingWasted == ASSUME ~Damaged PROVE Spec => []NotWasted
<1>1. ExchangeInv => NotWasted
  BY DEF ExchangeInv
<1> QED
  BY <1>1, ExchangeInvariant, PTL
----------------------------------------------------------------------------
(* Exchange implements OneTimeSecret.  A secret is in one place at most: in *)
(* the create that a page waits for, in one that its page has given up, in  *)
(* the table, in an answer, or on a reader's screen.                        *)

Places(k) ==
  {<<"asked", p>> : p \in {o \in Pages : Offering(o, k)}}
  \cup {<<"late", q>> : q \in {o \in late : Offers(o, k)}}
  \cup {<<"row", s>> : s \in {o \in {k} : Stored(k)}}
  \cup {<<"answer", p>> : p \in {o \in Pages : Getting(o, k)}}
  \cup {<<"read", s>> : s \in {o \in {k} : Shown(k)}}

OnePlace(k) ==
  /\ k > draws => Places(k) = {}
  /\ \A x, y \in Places(k) : x = y

LEMMA Whereabouts ==
  ASSUME NEW k, NEW x
  PROVE  x \in Places(k) <=>
           \/ \E p \in Pages : x = <<"asked", p>> /\ Offering(p, k)
           \/ \E q \in late : x = <<"late", q>> /\ Offers(q, k)
           \/ x = <<"row", k>> /\ Stored(k)
           \/ \E p \in Pages : x = <<"answer", p>> /\ Getting(p, k)
           \/ x = <<"read", k>> /\ Shown(k)
BY DEF Places

\* A step leaves a secret where it is, moves it, or makes a new one.
Keeps(k) == Places(k)' \subseteq Places(k)

Moves(k) ==
  \E x \in Places(k) : \E y : Places(k)' \subseteq (Places(k) \ {x}) \cup {y}

Makes(k) ==
  /\ k > draws /\ k <= draws'
  /\ \E y : Places(k)' \subseteq {y}

LEMMA PlaceKept ==
  ASSUME NEW k \in LinkKeys, OnePlace(k), draws \in Nat, draws' \in Nat,
         draws <= draws', Keeps(k) \/ Moves(k) \/ Makes(k)
  PROVE  OnePlace(k)'
<1>1. k \in Nat
  BY Numbers
<1>2. CASE Keeps(k)
  BY <1>1, <1>2 DEF OnePlace, Keeps
<1>3. CASE Moves(k)
  BY <1>1, <1>3 DEF OnePlace, Moves
<1>4. CASE Makes(k)
  BY <1>1, <1>4 DEF OnePlace, Makes
<1> QED
  BY <1>2, <1>3, <1>4

LEMMA CiphertextKey ==
  ASSUME NEW c \in Ciphertexts
  PROVE  c.key.link \in LinkKeys
<1>1. PICK k \in LinkKeys, s \in Slugs, p \in Passphrases \cup {Null} :
        c = EncryptSecret(k, s, p)
  BY DEF Ciphertexts
<1> QED
  BY <1>1, Ciphers

LEMMA StoredRow ==
  ASSUME Base, NEW k \in LinkKeys
  PROVE  Stored(k) <=> rows[k] # Null
<1>1. \A s \in Slugs \ {0} : rows[s] # Null => rows[s].ciphertext.key.link = s
  BY Numbers, RowLeft
<1> QED
  BY <1>1, Numbers DEF Stored

LEMMA StoredRowNext ==
  ASSUME NEW k \in LinkKeys,
         \A s \in Slugs \ {0} : rows'[s] # Null => Sealed(rows'[s], s)
  PROVE  Stored(k)' <=> rows'[k] # Null
<1>1. \A s \in Slugs \ {0} : rows'[s] # Null => rows'[s].ciphertext.key.link = s
  BY Numbers, Sealing
<1> QED
  BY <1>1, Numbers DEF Stored

\* What the server's work does to a secret in the table.
LEMMA WorksStored ==
  ASSUME Base, NEW q \in Requests, Fits(q), NEW a \in Answers, Works(q, a),
         NEW k \in LinkKeys
  PROVE  /\ Stored(k)' /\ ~Stored(k) => Offers(q, k) /\ a.ciphertext = Null
         /\ a.ciphertext # Null /\ a.ciphertext.key.link = k => Stored(k) /\ ~Stored(k)'
<1>1. /\ Stored(k) <=> rows[k] # Null
      /\ Stored(k)' <=> rows'[k] # Null
  BY StoredRow, StoredRowNext, WorksTyped
<1>2. rows \in [Slugs -> Rows \cup {Stranger, Null}] /\ q.slug \in Slugs /\ k \in Slugs
  BY Numbers DEF Base, Typed, Requests
<1>3. CASE Nothing(q, a)
  BY <1>1, <1>3 DEF Nothing, Untouched
<1>4. CASE Stores(q, a)
  <2>1. q.slug \in LinkKeys /\ Sealed(q, q.slug)
    BY <1>2, <1>4, Numbers DEF Stores, Fits
  <2>2. Offers(q, q.slug)
    BY <1>4, <2>1, Sealing DEF Stores, Offers
  <2>3. k # q.slug => rows'[k] = rows[k]
    BY <1>2, <1>4 DEF Stores
  <2> QED
    BY <1>1, <1>4, <2>2, <2>3 DEF Stores
<1>5. CASE Counts(q, a)
  BY <1>1, <1>2, <1>5 DEF Counts
<1>6. CASE Burns(q, a)
  <2>1. q.slug \in LinkKeys /\ rows[q.slug] # Null
    BY <1>2, <1>6, Numbers DEF Burns
  <2>2. rows[q.slug].ciphertext.key.link = q.slug
    BY <2>1, RowLeft
  <2> QED
    BY <1>1, <1>2, <1>6, <2>1, <2>2 DEF Burns
<1> QED
  BY <1>3, <1>4, <1>5, <1>6 DEF Works

\* Where a secret can be after a step.
LEMMA PlacesNext ==
  ASSUME NEW k, NEW S,
         \A p \in Pages : Offering(p, k)' => <<"asked", p>> \in S,
         \A q \in late' : Offers(q, k) => <<"late", q>> \in S,
         Stored(k)' => <<"row", k>> \in S,
         \A p \in Pages : Getting(p, k)' => <<"answer", p>> \in S,
         Shown(k)' => <<"read", k>> \in S
  PROVE  Places(k)' \subseteq S
BY DEF Places

\* It stays where it is, if it stays.
LEMMA StaysPut ==
  ASSUME NEW k,
         \A p \in Pages : Offering(p, k)' => Offering(p, k),
         \A q \in late' : Offers(q, k) => q \in late,
         Stored(k)' => Stored(k),
         \A p \in Pages : Getting(p, k)' => Getting(p, k),
         Shown(k)' => Shown(k)
  PROVE  Keeps(k)
<1>1. /\ \A p \in Pages : Offering(p, k) => <<"asked", p>> \in Places(k)
      /\ \A q \in late : Offers(q, k) => <<"late", q>> \in Places(k)
      /\ Stored(k) => <<"row", k>> \in Places(k)
      /\ \A p \in Pages : Getting(p, k) => <<"answer", p>> \in Places(k)
      /\ Shown(k) => <<"read", k>> \in Places(k)
  BY DEF Places
<1> QED
  BY <1>1, PlacesNext DEF Keeps

LEMMA OnlyMove ==
  ASSUME NEW k, NEW x \in Places(k), NEW y, OnePlace(k), Places(k)' \subseteq {y}
  PROVE  Moves(k)
BY DEF Moves, OnePlace

\* In one place at most, it is in one kind of place at most.
LEMMA Apart ==
  ASSUME NEW k, OnePlace(k)
  PROVE  /\ \A p, o \in Pages : Offering(p, k) /\ Offering(o, k) => p = o
         /\ \A q, r \in late : Offers(q, k) /\ Offers(r, k) => q = r
         /\ \A p, o \in Pages : Getting(p, k) /\ Getting(o, k) => p = o
         /\ (\E p \in Pages : Offering(p, k)) => \A q \in late : ~Offers(q, k)
         /\ Pending(k) => ~Alive(k) /\ ~Shown(k)
         /\ Stored(k) => ~Pending(k) /\ ~Shown(k) /\ \A p \in Pages : ~Getting(p, k)
         /\ Alive(k) => ~Shown(k) /\ ~Pending(k)
         /\ k > draws => ~Pending(k) /\ ~Alive(k) /\ ~Shown(k)
<1>1. /\ \A p \in Pages : Offering(p, k) => <<"asked", p>> \in Places(k)
      /\ \A q \in late : Offers(q, k) => <<"late", q>> \in Places(k)
      /\ Stored(k) => <<"row", k>> \in Places(k)
      /\ \A p \in Pages : Getting(p, k) => <<"answer", p>> \in Places(k)
      /\ Shown(k) => <<"read", k>> \in Places(k)
  BY DEF Places
<1>2. \A x, y \in Places(k) : x = y
  BY DEF OnePlace
<1>3. \A a, b : /\ <<"asked", a>> # <<"late", b>> /\ <<"asked", a>> # <<"row", b>>
                /\ <<"asked", a>> # <<"answer", b>> /\ <<"asked", a>> # <<"read", b>>
                /\ <<"late", a>> # <<"row", b>> /\ <<"late", a>> # <<"answer", b>>
                /\ <<"late", a>> # <<"read", b>> /\ <<"row", a>> # <<"answer", b>>
                /\ <<"row", a>> # <<"read", b>> /\ <<"answer", a>> # <<"read", b>>
  OBVIOUS
<1>4. \A p, o \in Pages : Offering(p, k) /\ Offering(o, k) => p = o
  BY <1>1, <1>2
<1>5. \A q, r \in late : Offers(q, k) /\ Offers(r, k) => q = r
  BY <1>1, <1>2
<1>6. \A p, o \in Pages : Getting(p, k) /\ Getting(o, k) => p = o
  BY <1>1, <1>2
<1>7. ASSUME NEW p \in Pages, Offering(p, k)
      PROVE  /\ \A q \in late : ~Offers(q, k)
             /\ ~Stored(k) /\ ~Shown(k) /\ \A o \in Pages : ~Getting(o, k)
  BY <1>1, <1>2, <1>3, <1>7
<1>8. ASSUME NEW q \in late, Offers(q, k)
      PROVE  ~Stored(k) /\ ~Shown(k) /\ \A o \in Pages : ~Getting(o, k)
  BY <1>1, <1>2, <1>3, <1>8
<1>9. ASSUME Stored(k)
      PROVE  ~Shown(k) /\ \A o \in Pages : ~Getting(o, k)
  BY <1>1, <1>2, <1>3, <1>9
<1>10. ASSUME NEW p \in Pages, Getting(p, k)
       PROVE  ~Shown(k)
  BY <1>1, <1>2, <1>3, <1>10
<1>11. k > draws => ~Pending(k) /\ ~Alive(k) /\ ~Shown(k)
  BY <1>1 DEF OnePlace, Pending, Alive
<1> QED
  BY <1>4, <1>5, <1>6, <1>7, <1>8, <1>9, <1>10, <1>11 DEF Pending, Alive

\* A page posts a secret that has just been drawn.
LEMMA DrawnPlaces ==
  ASSUME Base, Told, NEW p \in Senders, Draws(p), NEW k \in LinkKeys, OnePlace(k)
  PROVE  /\ k # draws + 1 => /\ Keeps(k)
                             /\ Pending(k)' <=> Pending(k)
                             /\ Alive(k)' <=> Alive(k)
         /\ k = draws + 1 => Makes(k) /\ Pending(k)'
         /\ UNCHANGED read
<1>1. PICK q \in Requests :
        /\ q.kind = "post" /\ q.ciphertext.key.link = draws + 1
        /\ asked' = [asked EXCEPT ![p] = q]
  BY DEF Draws
<1>2. /\ asked[p] # Null => answer[p] # Null
      /\ answer' = [answer EXCEPT ![p] = Null]
      /\ draws' = draws + 1
      /\ UNCHANGED <<rows, late, read>>
  BY DEF Draws, revealVars
<1>3. /\ asked'[p] = q /\ \A o \in Pages \ {p} : asked'[o] = asked[o]
      /\ answer'[p] = Null /\ \A o \in Pages \ {p} : answer'[o] = answer[o]
      /\ p \in Pages
  BY <1>1, <1>2, SendersAssumption DEF Base, Typed
<1>4. Offering(p, k)' <=> k = draws + 1
  BY <1>1, <1>3, NullIsNone DEF Offering, Offers
<1>5. ~Offering(p, k) /\ \A o \in Pages \ {p} : Offering(o, k)' <=> Offering(o, k)
  BY <1>2, <1>3 DEF Offering
<1>6. ~Getting(p, k)
  BY DEF Told, Knows, Getting
<1>7. ~Getting(p, k)' /\ \A o \in Pages \ {p} : Getting(o, k)' <=> Getting(o, k)
  BY <1>3 DEF Getting
<1>8. (Stored(k)' <=> Stored(k)) /\ (Shown(k)' <=> Shown(k))
  BY <1>2 DEF Stored, Shown
<1>9. Alive(k)' <=> Alive(k)
  BY <1>6, <1>7, <1>8 DEF Alive
<1>10. CASE k # draws + 1
  <2>1. \A o \in Pages : Offering(o, k)' <=> Offering(o, k)
    BY <1>4, <1>5, <1>10
  <2>2. Pending(k)' <=> Pending(k)
    BY <1>2, <2>1 DEF Pending
  <2>3. Keeps(k)
    BY <1>2, <1>6, <1>7, <1>8, <2>1, StaysPut
  <2> QED
    BY <1>2, <1>9, <1>10, <2>2, <2>3
<1>11. CASE k = draws + 1
  <2>1. draws \in Nat /\ k > draws /\ k <= draws'
    BY <1>2, <1>11 DEF Base, Typed
  <2>2. ~Pending(k) /\ ~Alive(k) /\ ~Shown(k)
    BY <2>1, Apart
  <2>3. /\ \A o \in Pages : Offering(o, k)' => o = p
        /\ \A r \in late' : ~Offers(r, k)
        /\ ~Stored(k)' /\ ~Shown(k)' /\ \A o \in Pages : ~Getting(o, k)'
    BY <1>2, <1>5, <1>7, <1>8, <2>2 DEF Pending, Alive
  <2>4. Places(k)' \subseteq {<<"asked", p>>}
    BY <2>3, PlacesNext
  <2>5. Pending(k)'
    BY <1>3, <1>4, <1>11 DEF Pending
  <2> QED
    BY <1>2, <1>11, <2>1, <2>4, <2>5 DEF Makes
<1> QED
  BY <1>10, <1>11

\* The other steps of a sender.
LEMMA SenderPlaces ==
  ASSUME Base, NEW p \in Senders, Create(p), ~Submit(p), ~TryAgain(p), NEW k
  PROVE  /\ Keeps(k) /\ UNCHANGED <<draws, read>>
         /\ (Pending(k)' => Pending(k)) /\ (Alive(k)' => Alive(k))
<1>1. SenderFrame(p)
  BY CreateFrame
<1>2. p \in Pages /\ asked \in [Pages -> Requests \cup {Null}]
  BY SendersAssumption DEF Base, Typed
<1>3. asked'[p] = Null \/ UNCHANGED <<asked, answer>>
  BY <1>2 DEF Create, CreateStep, ShowLink, FailSubmit, Settled, NewSecret, service,
     network
<1>4. UNCHANGED <<draws, rows, late, read>>
  <2>1. draws' = draws
    BY DEF Create, CreateStep, ShowLink, FailSubmit, NewSecret
  <2> QED
    BY <1>1, <2>1 DEF SenderFrame, revealVars
<1>5. \A o \in Pages : /\ Offering(o, k)' => Offering(o, k)
                       /\ Getting(o, k)' => Getting(o, k)
  BY <1>1, <1>3 DEF SenderFrame, Offering, Offers, Getting
<1>6. (Stored(k)' <=> Stored(k)) /\ (Shown(k)' <=> Shown(k))
  BY <1>4 DEF Stored, Shown
<1>7. (Pending(k)' => Pending(k)) /\ (Alive(k)' => Alive(k))
  BY <1>4, <1>5, <1>6 DEF Pending, Alive
<1> QED
  BY <1>4, <1>5, <1>6, <1>7, StaysPut

\* A reader's page asks for nothing to be kept.
LEMMA ReaderPlaces ==
  ASSUME Base, NEW t \in Readers, OpenLink(t) \/ Press(t) \/ Handles(t), NEW k
  PROVE  /\ draws' = draws
         /\ (Pending(k)' => Pending(k)) /\ (Alive(k)' => Alive(k))
         /\ read' = read => Keeps(k)
<1>1. ReaderFrame(t)
  BY ReadFrame
<1>2. UNCHANGED <<draws, rows, late>>
  BY <1>1 DEF ReaderFrame, createVars
<1>3. ~Offering(t, k)'
  <2>1. Base'
    BY BaseRead
  <2>2. asked'[t] # Null => Reading(t)'
    BY <2>1 DEF Base, Asked
  <2> QED
    BY <2>2 DEF Reading, Consuming, Offering, Offers
<1>4. \A o \in Pages : /\ Offering(o, k)' => Offering(o, k)
                       /\ Getting(o, k)' => Getting(o, k)
  BY <1>1, <1>3 DEF ReaderFrame, Offering, Offers, Getting
<1>5. Stored(k)' <=> Stored(k)
  BY <1>2 DEF Stored
<1>6. (Pending(k)' => Pending(k)) /\ (Alive(k)' => Alive(k))
  BY <1>2, <1>4, <1>5 DEF Pending, Alive
<1>7. read' = read => (Shown(k)' <=> Shown(k))
  BY DEF Shown
<1> QED
  BY <1>2, <1>4, <1>5, <1>6, <1>7, StaysPut

\* What a tab comes to show goes from its answer to its screen.
LEMMA ShownPlaces ==
  ASSUME Base, OnlyCopy, NEW t \in Readers, OpenLink(t) \/ Press(t) \/ Handles(t),
         read' # read, \A k \in LinkKeys : OnePlace(k)
  PROVE  \E j \in LinkKeys :
           /\ Alive(j) /\ Shown(j)' /\ ~Alive(j)' /\ Moves(j)
           /\ \A k \in LinkKeys \ {j} :
                /\ Keeps(k)
                /\ Alive(k)' <=> Alive(k)
                /\ Pending(k)' <=> Pending(k)
                /\ Shown(k)' <=> Shown(k)
<1>1. /\ Decrypt(t)
      /\ Decrypts(answer[t].ciphertext, tab[t].key, tab[t].slug, tab[t].passphrase)
      /\ read' = read \cup {answer[t].ciphertext}
  BY DEF OpenLink, Open, Press, Reveal, Handles, Handler, MetaArrives, Refused,
     Decrypt, Unhandled
<1>2. ReaderFrame(t) /\ t \in Pages
  BY ReadFrame, ReadersAssumption
<1>3. PICK c \in Ciphertexts : c = answer[t].ciphertext /\ c # Null
  BY <1>1, Opening DEF Decrypt, Has
<1>4. PICK j \in LinkKeys : j = c.key.link
  BY <1>3, CiphertextKey
<1>5. Getting(t, j)
  BY <1>1, <1>3, <1>4 DEF Decrypt, Has, Getting
<1>6. \A k : Shown(k)' <=> Shown(k) \/ k = j
  <2>1. read' = read \cup {c}
    BY <1>1, <1>3
  <2> QED
    BY <1>4, <2>1 DEF Shown
<1>7. asked'[t] = Null /\ answer'[t] = Null
  BY <1>1, <1>2 DEF Decrypt, Done, Base, Typed
<1>8. UNCHANGED <<rows, late>> /\ \A k : Stored(k)' <=> Stored(k)
  BY <1>2 DEF ReaderFrame, Stored
<1>9. ASSUME NEW k
      PROVE  /\ ~Offering(t, k) /\ ~Offering(t, k)' /\ ~Getting(t, k)'
             /\ \A o \in Pages \ {t} : /\ Offering(o, k)' <=> Offering(o, k)
                                       /\ Getting(o, k)' <=> Getting(o, k)
  BY <1>1, <1>2, <1>7 DEF Decrypt, Has, ReaderFrame, Offering, Offers, Getting
<1>10. /\ Alive(j) /\ ~Pending(j) /\ ~Shown(j) /\ ~Stored(j)
       /\ \A o \in Pages \ {t} : ~Getting(o, j)
       /\ <<"answer", t>> \in Places(j)
  BY <1>2, <1>5, Apart, Whereabouts DEF Alive
<1>11. ~Alive(j)' /\ ~Pending(j)'
  BY <1>8, <1>9, <1>10 DEF Alive, Pending
<1>12. Moves(j)
  <2>1. Places(j)' \subseteq {<<"read", j>>}
    BY <1>11, PlacesNext DEF Alive, Pending
  <2> QED
    BY <1>10, <2>1, OnlyMove
<1>13. ASSUME NEW k \in LinkKeys \ {j}
       PROVE  /\ Keeps(k)
              /\ Alive(k)' <=> Alive(k)
              /\ Pending(k)' <=> Pending(k)
              /\ Shown(k)' <=> Shown(k)
  <2>1. ~Getting(t, k)
    BY <1>3, <1>4, <1>13 DEF Getting
  <2>2. \A o \in Pages : /\ Offering(o, k)' <=> Offering(o, k)
                         /\ Getting(o, k)' <=> Getting(o, k)
    BY <1>9, <2>1
  <2>3. Shown(k)' <=> Shown(k)
    BY <1>6, <1>13
  <2>4. Keeps(k)
    BY <1>8, <2>2, <2>3, StaysPut
  <2> QED
    BY <1>8, <2>2, <2>3, <2>4 DEF Alive, Pending
<1> QED
  BY <1>6, <1>10, <1>11, <1>12, <1>13

\* The server takes a secret from the page that offers it to the table, or from
\* the table to the page that asks for it.
LEMMA ServedPlaces ==
  ASSUME Base, NEW p \in Pages, Serves(p), NEW k \in LinkKeys, OnePlace(k)
  PROVE  /\ Keeps(k) \/ Moves(k)
         /\ UNCHANGED <<draws, read>>
         /\ Pending(k)' => Pending(k)
         /\ Alive(k)' => Alive(k) \/ Pending(k)
<1>1. Served(p)
  BY Serving
<1>2. PICK a \in Answers : Works(asked[p], a) /\ answer' = [answer EXCEPT ![p] = a]
  BY <1>1 DEF Served
<1>3. /\ asked[p] # Null /\ answer[p] = Null
      /\ UNCHANGED <<asked, late, draws, read>>
  BY <1>1 DEF Served, createVars, revealVars
<1>4. asked[p] \in Requests /\ Fits(asked[p])
  BY <1>3, Asking
<1>5. PICK q \in Requests : q = asked[p]
  BY <1>4
<1>6. /\ Stored(k)' /\ ~Stored(k) => Offers(q, k) /\ a.ciphertext = Null
      /\ a.ciphertext # Null /\ a.ciphertext.key.link = k => Stored(k) /\ ~Stored(k)'
  BY <1>2, <1>4, <1>5, WorksStored
<1>7. answer'[p] = a /\ a # Null /\ \A o \in Pages \ {p} : answer'[o] = answer[o]
  BY <1>2, NullIsNone DEF Base, Typed
<1>8. /\ Offering(p, k) <=> Offers(q, k)
      /\ ~Offering(p, k)'
      /\ \A o \in Pages \ {p} : Offering(o, k)' <=> Offering(o, k)
  BY <1>3, <1>5, <1>7 DEF Offering, Offers
<1>9. /\ ~Getting(p, k)
      /\ Getting(p, k)' <=> a.ciphertext # Null /\ a.ciphertext.key.link = k
      /\ \A o \in Pages \ {p} : Getting(o, k)' <=> Getting(o, k)
  BY <1>3, <1>7 DEF Getting
<1>10. Shown(k)' <=> Shown(k)
  BY <1>3 DEF Shown
<1>11. \A o \in Pages : Offering(o, k)' => Offering(o, k)
  BY <1>8
<1>12. Pending(k)' => Pending(k)
  BY <1>3, <1>11 DEF Pending
<1>13. Stored(k)' /\ ~Stored(k) => Offering(p, k) /\ ~Getting(p, k)'
  BY <1>6, <1>8, <1>9
<1>14. Getting(p, k)' => Stored(k) /\ ~Stored(k)'
  BY <1>6, <1>9
<1>15. Alive(k)' => Alive(k) \/ Pending(k)
  BY <1>9, <1>13, <1>14 DEF Alive, Pending
<1>16. CASE Stored(k)' /\ ~Stored(k)
  <2>1. <<"asked", p>> \in Places(k)
    BY <1>13, <1>16, Whereabouts
  <2>2. /\ ~Alive(k) /\ ~Shown(k)
        /\ \A o \in Pages \ {p} : ~Offering(o, k)
        /\ \A r \in late : ~Offers(r, k)
    BY <1>13, <1>16, Apart DEF Pending
  <2>3. /\ \A o \in Pages : ~Offering(o, k)' /\ ~Getting(o, k)'
        /\ \A r \in late' : ~Offers(r, k)
        /\ ~Shown(k)'
    BY <1>3, <1>8, <1>9, <1>10, <1>13, <1>16, <2>2 DEF Alive
  <2>4. Places(k)' \subseteq {<<"row", k>>}
    BY <2>3, PlacesNext
  <2> QED
    BY <1>3, <1>12, <1>15, <2>1, <2>4, OnlyMove
<1>17. CASE Getting(p, k)'
  <2>1. Stored(k) /\ ~Stored(k)' /\ <<"row", k>> \in Places(k)
    BY <1>14, <1>17, Whereabouts
  <2>2. ~Pending(k) /\ ~Shown(k) /\ \A o \in Pages : ~Getting(o, k)
    BY <2>1, Apart
  <2>3. /\ \A o \in Pages : ~Offering(o, k)'
        /\ \A o \in Pages \ {p} : ~Getting(o, k)'
        /\ \A r \in late' : ~Offers(r, k)
        /\ ~Shown(k)' /\ ~Stored(k)'
    BY <1>3, <1>9, <1>10, <1>11, <2>1, <2>2 DEF Pending
  <2>4. Places(k)' \subseteq {<<"answer", p>>}
    BY <2>3, PlacesNext
  <2> QED
    BY <1>3, <1>12, <1>15, <2>1, <2>4, OnlyMove
<1>18. CASE (Stored(k)' => Stored(k)) /\ ~Getting(p, k)'
  <2>1. Keeps(k)
    BY <1>3, <1>9, <1>10, <1>11, <1>18, StaysPut
  <2> QED
    BY <1>3, <1>12, <1>15, <2>1
<1> QED
  BY <1>16, <1>17, <1>18

\* And so it does late.
LEMMA LatePlaces ==
  ASSUME Base, ServeLate, UNCHANGED <<createVars, revealVars>>,
         NEW k \in LinkKeys, OnePlace(k)
  PROVE  /\ Keeps(k) \/ Moves(k)
         /\ UNCHANGED <<draws, read>>
         /\ Pending(k)' => Pending(k)
         /\ Alive(k)' => Alive(k) \/ Pending(k)
<1>1. ServedLate
  BY ServingLate
<1>2. PICK q \in late : (\E a \in Answers : Works(q, a)) /\ late' = late \ {q}
  BY <1>1 DEF ServedLate
<1>3. PICK a \in Answers : Works(q, a)
  BY <1>2
<1>4. q \in Requests /\ Fits(q)
  BY DEF Base, Typed, Asked
<1>5. UNCHANGED <<asked, answer, draws, read>>
  BY <1>1 DEF ServedLate, createVars, revealVars
<1>6. Stored(k)' /\ ~Stored(k) => Offers(q, k)
  BY <1>3, <1>4, WorksStored
<1>7. /\ \A o \in Pages : /\ Offering(o, k)' <=> Offering(o, k)
                          /\ Getting(o, k)' <=> Getting(o, k)
      /\ Shown(k)' <=> Shown(k)
  BY <1>5 DEF Offering, Offers, Getting, Shown
<1>8. Pending(k)' => Pending(k)
  BY <1>2, <1>7 DEF Pending
<1>9. Alive(k)' => Alive(k) \/ Pending(k)
  BY <1>6, <1>7 DEF Alive, Pending
<1>10. CASE Stored(k)' /\ ~Stored(k)
  <2>1. <<"late", q>> \in Places(k) /\ Pending(k)
    BY <1>6, <1>10, Whereabouts DEF Pending
  <2>2. /\ ~Alive(k) /\ ~Shown(k)
        /\ \A o \in Pages : ~Offering(o, k)
        /\ \A r \in late : Offers(r, k) => r = q
    BY <1>6, <1>10, <2>1, Apart
  <2>3. /\ \A o \in Pages : ~Offering(o, k)' /\ ~Getting(o, k)'
        /\ \A r \in late' : ~Offers(r, k)
        /\ ~Shown(k)'
    BY <1>2, <1>7, <2>2 DEF Alive
  <2>4. Places(k)' \subseteq {<<"row", k>>}
    BY <2>3, PlacesNext
  <2> QED
    BY <1>5, <1>8, <1>9, <2>1, <2>4, OnlyMove
<1>11. CASE Stored(k)' => Stored(k)
  <2>1. Keeps(k)
    BY <1>2, <1>7, <1>11, StaysPut
  <2> QED
    BY <1>5, <1>8, <1>9, <2>1
<1> QED
  BY <1>10, <1>11

\* A connection that breaks leaves a create under way, or ends an answer.
LEMMA BreakPlaces ==
  ASSUME Base, NEW p \in Pages, Break(p), UNCHANGED <<createVars, revealVars>>,
         NEW k \in LinkKeys, OnePlace(k)
  PROVE  /\ Keeps(k) \/ Moves(k)
         /\ UNCHANGED <<draws, read>>
         /\ (Pending(k)' => Pending(k)) /\ (Alive(k)' => Alive(k))
<1>1. /\ asked[p] # Null
      /\ answer' = [answer EXCEPT ![p] = Answer(Lost)]
      /\ late' = late \/ (answer[p] = Null /\ late' = late \cup Effective(asked[p]))
      /\ UNCHANGED <<rows, asked, draws, read>>
  BY DEF Break, createVars, revealVars
<1>2. PICK q \in Requests : q = asked[p]
  BY <1>1, Asking
<1>3. late' = late \/ (answer[p] = Null /\ late' \subseteq late \cup {q})
  BY <1>1, <1>2, EffectiveSelf
<1>4. Answer(Lost) # Null /\ Answer(Lost).ciphertext = Null
  BY AnswerType, NullIsNone DEF Statuses
<1>5. answer'[p] = Answer(Lost) /\ \A o \in Pages \ {p} : answer'[o] = answer[o]
  BY <1>1 DEF Base, Typed
<1>6. /\ ~Offering(p, k)' /\ ~Getting(p, k)'
      /\ \A o \in Pages \ {p} : /\ Offering(o, k)' <=> Offering(o, k)
                                /\ Getting(o, k)' <=> Getting(o, k)
  BY <1>1, <1>4, <1>5 DEF Offering, Offers, Getting
<1>7. Offering(p, k) <=> answer[p] = Null /\ Offers(q, k)
  BY <1>1, <1>2 DEF Offering
<1>8. (Stored(k)' <=> Stored(k)) /\ (Shown(k)' <=> Shown(k))
  BY <1>1 DEF Stored, Shown
<1>9. \A r \in late' : Offers(r, k) => r \in late \/ (r = q /\ Offering(p, k))
  BY <1>3, <1>7
<1>10. (Pending(k)' => Pending(k)) /\ (Alive(k)' => Alive(k))
  BY <1>6, <1>8, <1>9 DEF Pending, Alive
<1>11. CASE Offering(p, k)
  <2>1. <<"asked", p>> \in Places(k) /\ Pending(k)
    BY <1>11, Whereabouts DEF Pending
  <2>2. /\ ~Alive(k) /\ ~Shown(k)
        /\ \A o \in Pages \ {p} : ~Offering(o, k)
        /\ \A r \in late : ~Offers(r, k)
    BY <1>11, <2>1, Apart
  <2>3. /\ \A o \in Pages : ~Offering(o, k)' /\ ~Getting(o, k)'
        /\ \A r \in late' : Offers(r, k) => r = q
        /\ ~Stored(k)' /\ ~Shown(k)'
    BY <1>6, <1>8, <1>9, <2>2 DEF Alive
  <2>4. Places(k)' \subseteq {<<"late", q>>}
    BY <2>3, PlacesNext
  <2> QED
    BY <1>1, <1>10, <2>1, <2>4, OnlyMove
<1>12. CASE ~Offering(p, k)
  <2>1. Keeps(k)
    BY <1>6, <1>8, <1>9, <1>12, StaysPut
  <2> QED
    BY <1>1, <1>10, <2>1
<1> QED
  BY <1>11, <1>12

LEMMA TimePlaces ==
  ASSUME Base, NEW s \in Slugs, Expire(s) \/ Unlock(s),
         UNCHANGED <<createVars, revealVars>>, NEW k
  PROVE  /\ Keeps(k) /\ UNCHANGED <<draws, read>>
         /\ (Pending(k)' => Pending(k)) /\ (Alive(k)' => Alive(k))
<1>1. UNCHANGED <<asked, answer, late, draws, read>>
  BY DEF Expire, Unlock, network, createVars, revealVars
<1>2. /\ \A o \in Pages : /\ Offering(o, k)' <=> Offering(o, k)
                          /\ Getting(o, k)' <=> Getting(o, k)
      /\ Shown(k)' <=> Shown(k)
  BY <1>1 DEF Offering, Offers, Getting, Shown
<1>3. ASSUME NEW x \in Slugs \ {0}, rows'[x] # Null
      PROVE  rows[x] # Null /\ rows'[x].ciphertext = rows[x].ciphertext
  <2>1. rows \in [Slugs -> Rows \cup {Stranger, Null}]
    BY DEF Base, Typed
  <2>2. CASE Expire(s)
    BY <1>3, <2>1, <2>2 DEF Expire
  <2>3. CASE Unlock(s)
    <3>1. rows[x] # Null
      BY <1>3, <2>1, <2>3 DEF Unlock
    <3>2. x \in Slugs /\ x # 0
      BY <1>3
    <3>3. rows[x] \in Rows
      BY <3>1, <3>2, SlugRow
    <3>4. rows' = [rows EXCEPT ![s] = [rows[s] EXCEPT !.locked = FALSE]]
      BY <2>3 DEF Unlock
    <3>5. x # s => rows'[x] = rows[x]
      BY <2>1, <3>4
    <3>6. x = s => rows'[x] = [rows[x] EXCEPT !.locked = FALSE]
      BY <2>1, <3>4
    <3>7. [rows[x] EXCEPT !.locked = FALSE].ciphertext = rows[x].ciphertext
      BY <3>3 DEF Rows
    <3> QED
      BY <3>1, <3>5, <3>6, <3>7
  <2> QED
    BY <2>2, <2>3
<1>4. Stored(k)' => Stored(k)
  BY <1>3 DEF Stored
<1> QED
  BY <1>1, <1>2, <1>4, StaysPut DEF Pending, Alive

\* One secret is in no other's way.
LEMMA WorksAlone ==
  ASSUME Base, NEW q \in Requests, Fits(q), NEW a \in Answers, Works(q, a),
         NEW j \in LinkKeys, Stored(j)', ~Stored(j), NEW k \in LinkKeys \ {j}
  PROVE  /\ a.ciphertext = Null /\ Offers(q, j) /\ ~Offers(q, k)
         /\ Stored(k)' <=> Stored(k)
<1>1. Offers(q, j) /\ a.ciphertext = Null
  BY WorksStored
<1>2. /\ Stored(j) <=> rows[j] # Null
      /\ Stored(j)' <=> rows'[j] # Null
      /\ Stored(k) <=> rows[k] # Null
      /\ Stored(k)' <=> rows'[k] # Null
  BY StoredRow, StoredRowNext, WorksTyped
<1>3. j = q.slug
  BY <1>2, Numbers, WorksElsewhere
<1>4. rows'[k] = rows[k]
  BY <1>3, Numbers, WorksElsewhere
<1> QED
  BY <1>1, <1>2, <1>4 DEF Offers

LEMMA ServedSeals ==
  ASSUME Base, NEW p \in Pages, Serves(p),
         NEW j \in LinkKeys, Alive(j)', ~Alive(j), NEW k \in LinkKeys \ {j}
  PROVE  (Pending(k)' <=> Pending(k)) /\ (Alive(k)' <=> Alive(k))
<1>1. Served(p)
  BY Serving
<1>2. PICK a \in Answers : Works(asked[p], a) /\ answer' = [answer EXCEPT ![p] = a]
  BY <1>1 DEF Served
<1>3. /\ asked[p] # Null /\ answer[p] = Null
      /\ UNCHANGED <<asked, late>>
  BY <1>1 DEF Served
<1>4. PICK q \in Requests : q = asked[p] /\ Fits(q)
  BY <1>3, Asking
<1>5. answer'[p] = a /\ \A o \in Pages \ {p} : answer'[o] = answer[o]
  BY <1>2 DEF Base, Typed
<1>6. Stored(j)' /\ ~Stored(j)
  <2>1. ~Stored(j) /\ \A o \in Pages : ~Getting(o, j)
    BY DEF Alive
  <2>2. \A o \in Pages \ {p} : ~Getting(o, j)'
    BY <1>5, <2>1 DEF Getting
  <2>3. Getting(p, j)' => a.ciphertext # Null /\ a.ciphertext.key.link = j
    BY <1>5 DEF Getting
  <2>4. ~Getting(p, j)'
    BY <1>2, <1>4, <2>1, <2>3, WorksStored
  <2> QED
    BY <2>1, <2>2, <2>4 DEF Alive
<1>7. /\ a.ciphertext = Null /\ ~Offers(q, k)
      /\ Stored(k)' <=> Stored(k)
  BY <1>2, <1>4, <1>6, WorksAlone
<1>8. \A o \in Pages : /\ Offering(o, k)' <=> Offering(o, k)
                       /\ Getting(o, k)' <=> Getting(o, k)
  <2>1. ASSUME NEW o \in Pages \ {p}
        PROVE  (Offering(o, k)' <=> Offering(o, k)) /\ (Getting(o, k)' <=> Getting(o, k))
    BY <1>3, <1>5, <2>1 DEF Offering, Offers, Getting
  <2>2. ~Offering(p, k) /\ ~Offering(p, k)'
    BY <1>3, <1>4, <1>7 DEF Offering, Offers
  <2>3. ~Getting(p, k) /\ ~Getting(p, k)'
    BY <1>3, <1>5, <1>7 DEF Getting
  <2> QED
    BY <2>1, <2>2, <2>3
<1> QED
  BY <1>3, <1>7, <1>8 DEF Alive, Pending

LEMMA LateSeals ==
  ASSUME Base, ServeLate, UNCHANGED <<createVars, revealVars>>,
         NEW j \in LinkKeys, Alive(j)', ~Alive(j), NEW k \in LinkKeys \ {j}
  PROVE  (Pending(k)' <=> Pending(k)) /\ (Alive(k)' <=> Alive(k))
<1>1. ServedLate
  BY ServingLate
<1>2. PICK q \in late : (\E a \in Answers : Works(q, a)) /\ late' = late \ {q}
  BY <1>1 DEF ServedLate
<1>3. PICK a \in Answers : Works(q, a)
  BY <1>2
<1>4. q \in Requests /\ Fits(q)
  BY DEF Base, Typed, Asked
<1>5. UNCHANGED <<asked, answer>>
  BY <1>1 DEF ServedLate
<1>6. \A i : \A o \in Pages : /\ Offering(o, i)' <=> Offering(o, i)
                              /\ Getting(o, i)' <=> Getting(o, i)
  BY <1>5 DEF Offering, Offers, Getting
<1>7. Stored(j)' /\ ~Stored(j)
  BY <1>6 DEF Alive
<1>8. /\ ~Offers(q, k)
      /\ Stored(k)' <=> Stored(k)
  BY <1>3, <1>4, <1>7, WorksAlone
<1> QED
  BY <1>2, <1>6, <1>8 DEF Alive, Pending

----------------------------------------------------------------------------
(* The steps of OneTimeSecret.                                             *)

Single == \A k \in LinkKeys : OnePlace(k)

LEMMA SingleInit == Init => Single
<1> SUFFICES ASSUME Init, NEW k \in LinkKeys PROVE Places(k) = {}
  BY DEF Single, OnePlace
<1>1. /\ \A p \in Pages : ~Offering(p, k) /\ ~Getting(p, k)
      /\ late = {} /\ read = {}
  BY DEF Init, ServiceInit, RevealInit, Offering, Getting
<1>2. \A s \in Slugs \ {0} : rows[s] = Null
  BY DEF Init, ServiceInit
<1>3. ~Stored(k) /\ ~Shown(k)
  BY <1>1, <1>2 DEF Stored, Shown
<1> QED
  BY <1>1, <1>3 DEF Places

LEMMA SingleNext ==
  ASSUME Base, Told, OnlyCopy, Single, Next
  PROVE  Single'
<1> SUFFICES ASSUME NEW k \in LinkKeys PROVE OnePlace(k)'
  BY DEF Single
<1>1. OnePlace(k)
  BY DEF Single
<1>2. draws \in Nat /\ draws' \in Nat
  <2>1. Base'
    BY BaseNext
  <2> QED
    BY <2>1 DEF Base, Typed
<1>3. ASSUME NEW p \in Senders, Create(p)
      PROVE  draws <= draws' /\ (Keeps(k) \/ Makes(k))
  <2>1. CASE Submit(p) \/ TryAgain(p)
    <3>1. Draws(p)
      BY <1>3, <2>1, Drawing DEF Create
    <3> QED
      <4>1. Keeps(k) \/ Makes(k)
        BY <1>1, <3>1, DrawnPlaces
      <4>2. draws' = draws + 1
        BY <3>1 DEF Draws
      <4> QED
        BY <1>2, <4>1, <4>2
  <2>2. CASE ~Submit(p) /\ ~TryAgain(p)
    BY <1>2, <1>3, <2>2, SenderPlaces
  <2> QED
    BY <2>1, <2>2
<1>4. ASSUME NEW t \in Readers, OpenLink(t) \/ Press(t) \/ Handles(t)
      PROVE  draws' = draws /\ (Keeps(k) \/ Moves(k))
  <2>1. draws' = draws /\ (read' = read => Keeps(k))
    BY <1>4, ReaderPlaces
  <2>2. CASE read' # read
    BY <1>4, <2>1, <2>2, ShownPlaces DEF Single
  <2> QED
    BY <2>1, <2>2
<1>5. ASSUME NEW p \in Pages, Serves(p)
      PROVE  draws' = draws /\ (Keeps(k) \/ Moves(k))
  BY <1>1, <1>5, ServedPlaces
<1>6. CASE Outside
  <2>1. draws' = draws /\ (Keeps(k) \/ Moves(k))
    BY <1>1, <1>6, BreakPlaces, LatePlaces, TimePlaces DEF Outside
  <2> QED
    BY <1>1, <1>2, <2>1, PlaceKept
<1> QED
  BY <1>1, <1>2, <1>3, <1>4, <1>5, <1>6, PlaceKept DEF Next

LEMMA InPhase ==
  ASSUME Single, NEW k \in LinkKeys
  PROVE  /\ Pending(k) => ~Alive(k) /\ ~Shown(k) /\ ~(k > draws)
         /\ Alive(k) => ~Shown(k) /\ ~(k > draws)
         /\ Shown(k) => ~(k > draws)
<1>1. OnePlace(k)
  BY DEF Single
<1> QED
  BY <1>1, Apart

\* A step that draws nothing and shows nothing, and makes no copy, may only lose
\* secrets.
LEMMA LoseStep ==
  ASSUME Single, UNCHANGED <<draws, read>>,
         \A k \in LinkKeys : (Pending(k)' => Pending(k)) /\ (Alive(k)' => Alive(k))
  PROVE  Abstract!Next
<1> DEFINE B == {k \in LinkKeys : Phase(k)' # Phase(k)}
<1>1. \A k \in LinkKeys : Shown(k)' <=> Shown(k)
  BY DEF Shown
<1>2. \A k \in B : Phase(k) \in {"offered", "sealed"} /\ Phase(k)' = "gone"
  BY <1>1, InPhase DEF Phase
<1>3. [k \in LinkKeys |-> Phase(k)]' =
        [k \in LinkKeys |-> IF k \in B THEN "gone" ELSE Phase(k)]
  BY <1>2
<1>4. Abstract!Lose(B)
  BY <1>2, <1>3 DEF Abstract!Lose
<1> QED
  BY <1>4 DEF Abstract!Next

LEMMA SealStep ==
  ASSUME Single, UNCHANGED <<draws, read>>,
         NEW j \in LinkKeys, Alive(j)', Pending(j), ~Pending(j)',
         \A k \in LinkKeys \ {j} :
           (Pending(k)' <=> Pending(k)) /\ (Alive(k)' <=> Alive(k))
  PROVE  Abstract!Next
<1>1. \A k \in LinkKeys : Shown(k)' <=> Shown(k)
  BY DEF Shown
<1>2. Phase(j) = "offered" /\ Phase(j)' = "sealed"
  BY <1>1, InPhase DEF Phase
<1>3. \A k \in LinkKeys \ {j} : Phase(k)' = Phase(k)
  BY <1>1 DEF Phase
<1>4. Abstract!Seal(j)
  BY <1>2, <1>3 DEF Abstract!Seal
<1> QED
  BY <1>4 DEF Abstract!Next

LEMMA ReleaseStep ==
  ASSUME Base, OnlyCopy, Single, NEW t \in Readers,
         OpenLink(t) \/ Press(t) \/ Handles(t), read' # read
  PROVE  Abstract!Next
<1>1. PICK j \in LinkKeys :
        /\ Alive(j) /\ Shown(j)' /\ ~Alive(j)' /\ Moves(j)
        /\ \A k \in LinkKeys \ {j} :
             /\ Keeps(k)
             /\ Alive(k)' <=> Alive(k)
             /\ Pending(k)' <=> Pending(k)
             /\ Shown(k)' <=> Shown(k)
  BY ShownPlaces DEF Single
<1>2. draws' = draws
  BY ReaderPlaces
<1>3. ~Pending(j)'
  BY <1>1, ReaderPlaces, InPhase
<1>4. Phase(j) = "sealed" /\ Phase(j)' = "released"
  BY <1>1, <1>2, <1>3, InPhase DEF Phase
<1>5. \A k \in LinkKeys \ {j} : Phase(k)' = Phase(k)
  BY <1>1, <1>2 DEF Phase
<1>6. ~(j > draws)
  BY <1>1, InPhase
<1>7. [k \in LinkKeys |-> Phase(k)]' =
        [[k \in LinkKeys |-> Phase(k)] EXCEPT ![j] = "released"]
  BY <1>4, <1>5
<1>8. /\ [k \in LinkKeys |-> Phase(k)][j] = "sealed"
      /\ 0 < [k \in LinkKeys |-> IF k > draws THEN 0 ELSE 1][j]
  BY <1>4, <1>6
<1>9. [k \in LinkKeys |-> IF k > draws THEN 0 ELSE 1]' =
        [k \in LinkKeys |-> IF k > draws THEN 0 ELSE 1]
  BY <1>2
<1>10. Abstract!Release(j)
  BY <1>7, <1>8, <1>9 DEF Abstract!Release
<1> QED
  BY <1>10 DEF Abstract!Next

LEMMA OfferStep ==
  ASSUME Base, Told, Single, Single', NEW p \in Senders, Draws(p)
  PROVE  Abstract!Next
<1>1. PICK j \in LinkKeys : j = draws + 1
  BY BoundsAssumption DEF Draws, Base, Typed, LinkKeys
<1>2. draws \in Nat /\ draws' = draws + 1 /\ read' = read
  BY DEF Draws, Base, Typed, revealVars
<1>3. Pending(j)' /\ \A k \in LinkKeys \ {j} : /\ Pending(k)' <=> Pending(k)
                                               /\ Alive(k)' <=> Alive(k)
  BY <1>1, DrawnPlaces DEF Single
<1>4. \A k \in LinkKeys : Shown(k)' <=> Shown(k)
  BY <1>2 DEF Shown
<1>5. \A k \in LinkKeys : k \in Nat
  BY Numbers
<1>6. \A k \in LinkKeys \ {j} : k > draws' <=> k > draws
  BY <1>1, <1>2, <1>5
<1>7. j > draws /\ ~(j > draws')
  BY <1>1, <1>2
<1>8. ~Shown(j)
  BY <1>7, InPhase
<1>9. Phase(j) = "unborn" /\ Phase(j)' = "offered"
  BY <1>3, <1>4, <1>7, <1>8 DEF Phase
<1>10. \A k \in LinkKeys \ {j} : Phase(k)' = Phase(k)
  BY <1>3, <1>4, <1>6 DEF Phase
<1>11. /\ [k \in LinkKeys |-> Phase(k)][j] = "unborn"
       /\ [k \in LinkKeys |-> Phase(k)]' =
            [[k \in LinkKeys |-> Phase(k)] EXCEPT ![j] = "offered"]
  BY <1>9, <1>10
<1>12. [k \in LinkKeys |-> IF k > draws THEN 0 ELSE 1]' =
         [[k \in LinkKeys |-> IF k > draws THEN 0 ELSE 1] EXCEPT ![j] = 0 + 1]
  <2>1. (IF j > draws' THEN 0 ELSE 1) = 0 + 1
    BY <1>7
  <2>2. \A k \in LinkKeys \ {j} :
          (IF k > draws' THEN 0 ELSE 1) = IF k > draws THEN 0 ELSE 1
    BY <1>6
  <2> QED
    BY <2>1, <2>2, Zenon
<1>13. Abstract!Offer(j, 1)
  BY <1>11, <1>12 DEF Abstract!Offer
<1> QED
  BY <1>13 DEF Abstract!Next

LEMMA ApartNext ==
  ASSUME NEW k, OnePlace(k)', Alive(k)'
  PROVE  ~Pending(k)'
<1>1. /\ \A p \in Pages : Offering(p, k)' => <<"asked", p>> \in Places(k)'
      /\ \A q \in late' : Offers(q, k) => <<"late", q>> \in Places(k)'
      /\ Stored(k)' => <<"row", k>> \in Places(k)'
      /\ \A p \in Pages : Getting(p, k)' => <<"answer", p>> \in Places(k)'
  BY DEF Places
<1>2. \A x, y \in Places(k)' : x = y
  BY DEF OnePlace
<1>3. PICK x \in Places(k)' : x = <<"row", k>> \/ \E p \in Pages : x = <<"answer", p>>
  BY <1>1 DEF Alive
<1>4. ASSUME Pending(k)'
      PROVE  FALSE
  <2>1. PICK y \in Places(k)' : \/ \E p \in Pages : y = <<"asked", p>>
                               \/ \E q \in late' : y = <<"late", q>>
    BY <1>1, <1>4 DEF Pending
  <2> QED
    BY <1>2, <1>3, <2>1
<1> QED
  BY <1>4

LEMMA WorkStep ==
  ASSUME Single, Single', UNCHANGED <<draws, read>>,
         \A k \in LinkKeys : /\ Pending(k)' => Pending(k)
                             /\ Alive(k)' => Alive(k) \/ Pending(k),
         \A j \in LinkKeys : Alive(j)' /\ ~Alive(j) =>
           \A k \in LinkKeys \ {j} :
             (Pending(k)' <=> Pending(k)) /\ (Alive(k)' <=> Alive(k))
  PROVE  Abstract!Next
<1>1. CASE \A k \in LinkKeys : Alive(k)' => Alive(k)
  BY <1>1, LoseStep
<1>2. ASSUME NEW j \in LinkKeys, Alive(j)', ~Alive(j)
      PROVE  Abstract!Next
  <2>1. ~Pending(j)'
    <3>1. OnePlace(j)'
      BY DEF Single
    <3> QED
      BY <1>2, <3>1, ApartNext
  <2> QED
    BY <1>2, <2>1, SealStep
<1> QED
  BY <1>1, <1>2

LEMMA ExchangeRefinesInit == Init => Abstract!Init
<1> SUFFICES ASSUME Init PROVE Abstract!Init
  OBVIOUS
<1>1. draws = 0 /\ \A k \in LinkKeys : k > draws
  BY DEF Init, CreateInit, LinkKeys
<1>2. [k \in LinkKeys |-> Phase(k)] = [k \in LinkKeys |-> "unborn"]
  BY <1>1 DEF Phase
<1>3. [k \in LinkKeys |-> IF k > draws THEN 0 ELSE 1] = [k \in LinkKeys |-> 0]
  BY <1>1
<1> QED
  BY <1>2, <1>3 DEF Abstract!Init

\* Every step of Exchange is a step of OneTimeSecret, or changes nothing.
LEMMA ExchangeRefinesNext ==
  ASSUME Base, Told, OnlyCopy, Single, Single', Next
  PROVE  Abstract!Next
<1>1. ASSUME NEW p \in Senders, Create(p)
      PROVE  Abstract!Next
  <2>1. CASE Submit(p) \/ TryAgain(p)
    <3>1. Draws(p)
      BY <1>1, <2>1, Drawing DEF Create
    <3> QED
      BY <3>1, OfferStep
  <2>2. CASE ~Submit(p) /\ ~TryAgain(p)
    <3>1. UNCHANGED <<draws, read>>
      BY <1>1, <2>2, SenderPlaces
    <3>2. \A k \in LinkKeys : (Pending(k)' => Pending(k)) /\ (Alive(k)' => Alive(k))
      BY <1>1, <2>2, SenderPlaces
    <3> QED
      BY <3>1, <3>2, LoseStep
  <2> QED
    BY <2>1, <2>2
<1>2. ASSUME NEW t \in Readers, OpenLink(t) \/ Press(t) \/ Handles(t)
      PROVE  Abstract!Next
  <2>1. CASE read' = read
    <3>1. draws' = draws
      BY <1>2, ReaderPlaces
    <3>2. \A k \in LinkKeys : (Pending(k)' => Pending(k)) /\ (Alive(k)' => Alive(k))
      BY <1>2, ReaderPlaces
    <3> QED
      BY <2>1, <3>1, <3>2, LoseStep
  <2>2. CASE read' # read
    BY <1>2, <2>2, ReleaseStep
  <2> QED
    BY <2>1, <2>2
<1>3. \A k \in LinkKeys : OnePlace(k)
  BY DEF Single
<1>4. ASSUME NEW p \in Pages, Serves(p)
      PROVE  Abstract!Next
  <2>1. UNCHANGED <<draws, read>>
    BY <1>4 DEF Serves, createVars, revealVars
  <2>2. \A k \in LinkKeys : /\ Pending(k)' => Pending(k)
                            /\ Alive(k)' => Alive(k) \/ Pending(k)
    BY <1>3, <1>4, ServedPlaces
  <2>3. \A j \in LinkKeys : Alive(j)' /\ ~Alive(j) =>
          \A k \in LinkKeys \ {j} :
            (Pending(k)' <=> Pending(k)) /\ (Alive(k)' <=> Alive(k))
    BY <1>4, ServedSeals
  <2> QED
    BY <2>1, <2>2, <2>3, WorkStep
<1>5. CASE Outside
  <2>1. UNCHANGED <<createVars, revealVars>> /\ UNCHANGED <<draws, read>>
    BY <1>5 DEF Outside, createVars, revealVars
  <2>2. CASE ServeLate
    <3>1. \A k \in LinkKeys : /\ Pending(k)' => Pending(k)
                              /\ Alive(k)' => Alive(k) \/ Pending(k)
      BY <1>3, <2>1, <2>2, LatePlaces
    <3>2. \A j \in LinkKeys : Alive(j)' /\ ~Alive(j) =>
            \A k \in LinkKeys \ {j} :
              (Pending(k)' <=> Pending(k)) /\ (Alive(k)' <=> Alive(k))
      BY <2>1, <2>2, LateSeals
    <3> QED
      BY <2>1, <3>1, <3>2, WorkStep
  <2>3. CASE ~ServeLate
    <3>1. \A k \in LinkKeys : (Pending(k)' => Pending(k)) /\ (Alive(k)' => Alive(k))
      BY <1>3, <1>5, <2>1, <2>3, BreakPlaces, TimePlaces DEF Outside
    <3> QED
      BY <2>1, <3>1, LoseStep
  <2> QED
    BY <2>2, <2>3
<1> QED
  BY <1>1, <1>2, <1>4, <1>5 DEF Next

LEMMA PhasesStay ==
  ASSUME UNCHANGED vars
  PROVE  (Single' <=> Single) /\ UNCHANGED Abstract!vars
<1>1. UNCHANGED <<rows, asked, answer, late, draws, read>>
  BY DEF vars, service, network, createVars, revealVars
<1>2. \A k : Phase(k)' = Phase(k)
  BY <1>1 DEF Phase, Pending, Alive, Shown, Stored, Offering, Offers, Getting
<1>3. \A k : Places(k)' = Places(k)
  BY <1>1 DEF Places, Shown, Stored, Offering, Offers, Getting
<1> QED
  BY <1>1, <1>2, <1>3 DEF Single, OnePlace, Abstract!vars

\* From the form to the reader's tab, whatever collides, breaks, arrives late or
\* is pressed twice, the pages and the server do only what OneTimeSecret allows:
\* a secret is offered once, stored once, shown to one reader at most, and one
\* that was shown or lost never comes back.
THEOREM ExchangeImplementsOneTimeSecret == Spec => RefinesOneTimeSecret
<1>1. Spec => []Single
  <2>1. Single /\ UNCHANGED vars => Single'
    BY PhasesStay
  <2>2. ExchangeInv /\ Single /\ [Next]_vars => Single'
    BY <2>1, SingleNext DEF ExchangeInv
  <2> QED
    BY <2>2, SingleInit, ExchangeInvariant, PTL DEF Spec
<1>2. ExchangeInv /\ Single /\ Single' /\ [Next]_vars => [Abstract!Next]_(Abstract!vars)
  BY ExchangeRefinesNext, PhasesStay DEF ExchangeInv
<1> QED
  BY <1>1, <1>2, ExchangeRefinesInit, ExchangeInvariant, PTL
     DEF Spec, RefinesOneTimeSecret
=============================================================================
