----------------------------- MODULE CreatePage -----------------------------
(***************************************************************************)
(* static/js/create.js: the submit handler, which encrypts, posts and, on  *)
(* a slug that is taken, encrypts again under a new one.                   *)
(***************************************************************************)
EXTENDS Service

CONSTANTS
  Senders,    \* pages with the form
  MaxTries    \* attempts of one submit, 3 in create.js

ASSUME SendersAssumption == Senders \subseteq Pages /\ MaxTries \in Nat \ {0}

VARIABLES
  form,     \* form[p]: the page and the locals of its submit handler
  draws,    \* link keys drawn so far
  shared    \* links shown in result panels, which the senders pass on

createVars == <<form, draws, shared>>

\* fullLink: the slug and, after the #, the link key.
Link(slug, key) == [slug |-> slug, key |-> key]

IdleForm == [at |-> "form", attempt |-> 0, slug |-> 0, key |-> Null,
             passphrase |-> Null]

\* Mutant: a retry posts under a new slug what was encrypted for the old one.
EncryptForOldSlug(p, attempt, passphrase) ==
  LET key == draws + 1 IN
  /\ draws < MaxDraws
  /\ draws' = key
  /\ \E slug \in {key, 0} :
       LET ciphertext == EncryptSecret(key, IF attempt > 1 THEN form[p].slug ELSE slug, passphrase)
           verifier == IF passphrase = Null THEN Null
                                            ELSE DeriveVerifier(passphrase, slug) IN
       /\ asked' = [asked EXCEPT ![p] =
                      [kind |-> "post", slug |-> slug, ciphertext |-> ciphertext,
                       verifier |-> verifier]]
       /\ form' = [form EXCEPT ![p] =
                     [at |-> "waiting", attempt |-> attempt, slug |-> slug,
                      key |-> key, passphrase |-> passphrase]]
  /\ answer' = [answer EXCEPT ![p] = Null]

\* One turn of the loop up to the fetch, for a passphrase or none.
EncryptAndPost(p, attempt, passphrase) ==
  LET key == draws + 1 IN
  /\ draws < MaxDraws
  /\ draws' = key
  /\ \E slug \in {key, 0} :
       LET ciphertext == EncryptSecret(key, slug, passphrase)
           verifier == IF passphrase = Null THEN Null
                                            ELSE DeriveVerifier(passphrase, slug) IN
       /\ asked' = [asked EXCEPT ![p] =
                      [kind |-> "post", slug |-> slug, ciphertext |-> ciphertext,
                       verifier |-> verifier]]
       /\ form' = [form EXCEPT ![p] =
                     [at |-> "waiting", attempt |-> attempt, slug |-> slug,
                      key |-> key, passphrase |-> passphrase]]
  /\ answer' = [answer EXCEPT ![p] = Null]

\* Mutant: the button is not disabled while a fetch is under way.
SubmitTwice(p) ==
  /\ form[p].at \in {"form", "waiting"}
  /\ draws + MaxTries <= MaxDraws
  /\ \E passphrase \in Passphrases \cup {Null} : EncryptAndPost(p, 1, passphrase)
  /\ UNCHANGED <<rows, late, broken, burned, expired, astray, shared>>

\* The bound on draws leaves room for the retries of a page that is alone.
Submit(p) ==
  /\ form[p].at = "form"
  /\ draws + MaxTries <= MaxDraws
  /\ \E passphrase \in Passphrases \cup {Null} : EncryptAndPost(p, 1, passphrase)
  /\ UNCHANGED <<rows, late, broken, burned, expired, astray, shared>>

Answered(p, statuses) ==
  /\ form[p].at = "waiting"
  /\ answer[p] # Null
  /\ answer[p].status \in statuses

Settled(p) ==
  /\ asked' = [asked EXCEPT ![p] = Null]
  /\ answer' = [answer EXCEPT ![p] = Null]

\* 409: continue, unless that was the last attempt.
TryAgain(p) ==
  /\ Answered(p, {"409"})
  /\ form[p].attempt < MaxTries
  /\ EncryptAndPost(p, form[p].attempt + 1, form[p].passphrase)
  /\ UNCHANGED <<rows, late, broken, burned, expired, astray, shared>>

ShowLink(p) ==
  /\ Answered(p, {"201"})
  /\ form' = [form EXCEPT ![p].at = "result"]
  /\ shared' = shared \cup {Link(form[p].slug, form[p].key)}
  /\ Settled(p)
  /\ UNCHANGED <<rows, late, broken, burned, expired, astray, draws>>

\* Mutant: without the catch.
FailSubmitUncaught(p) ==
  /\ \/ Answered(p, Statuses \ {"201", "409", Lost})
     \/ Answered(p, {"409"}) /\ form[p].attempt >= MaxTries
  /\ form' = [form EXCEPT ![p] = IdleForm]
  /\ Settled(p)
  /\ UNCHANGED <<rows, late, broken, burned, expired, astray, draws, shared>>

\* Mutant: a request that threw is sent again as it was, slug and all.
FailSubmitResent(p) ==
  \/ /\ \/ Answered(p, Statuses \ {"201", "409", Lost})
        \/ Answered(p, {"409"}) /\ form[p].attempt >= MaxTries
     /\ form' = [form EXCEPT ![p] = IdleForm]
     /\ Settled(p)
     /\ UNCHANGED <<rows, late, broken, burned, expired, astray, draws, shared>>
  \/ /\ Answered(p, {Lost})
     /\ answer' = [answer EXCEPT ![p] = Null]
     /\ UNCHANGED <<rows, asked, late, broken, burned, expired, astray, form, draws, shared>>

\* fail(): a message, and the button works again.  A fetch or a body that
\* breaks off throws, and the catch fails too.
FailSubmit(p) ==
  /\ \/ Answered(p, Statuses \ {"201", "409"})
     \/ Answered(p, {"409"}) /\ form[p].attempt >= MaxTries
  /\ form' = [form EXCEPT ![p] = IdleForm]
  /\ Settled(p)
  /\ UNCHANGED <<rows, late, broken, burned, expired, astray, draws, shared>>

\* The link "/" of the result panel.
NewSecret(p) ==
  /\ form[p].at = "result"
  /\ form' = [form EXCEPT ![p] = IdleForm]
  /\ UNCHANGED <<service, draws, shared>>

CreateInit ==
  /\ form = [p \in Senders |-> IdleForm]
  /\ draws = 0
  /\ shared = {}

CreateStep(p) ==
  Submit(p) \/ TryAgain(p) \/ ShowLink(p) \/ FailSubmit(p) \/ NewSecret(p)
=============================================================================
