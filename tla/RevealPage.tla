----------------------------- MODULE RevealPage -----------------------------
(***************************************************************************)
(* static/js/reveal.js: init(), which asks for the meta data, and          *)
(* reveal(), which consumes the secret and decrypts it.                    *)
(***************************************************************************)
EXTENDS Service

CONSTANTS
  Readers    \* pages opened from a link

ASSUME ReadersAssumption == Readers \subseteq Pages

VARIABLES
  tab,    \* tab[t]: what the page shows, and its variables
  read    \* history: ciphertexts whose plaintext was shown

revealVars == <<tab, read>>

Closed == [at |-> "closed", slug |-> 0, key |-> Null, needsPassphrase |-> FALSE,
           passphrase |-> Null]

\* A page that can ask no more keeps nothing but what it shows (Closed EXCEPT).
\* The states a tab can be reloaded from: no fetch is under way.
Quiet(t) == asked[t] = Null

Ask(t, kind, slug, verifier) ==
  /\ asked' = [asked EXCEPT ![t] = [kind |-> kind, slug |-> slug,
                                    ciphertext |-> Null, verifier |-> verifier]]
  /\ answer' = [answer EXCEPT ![t] = Null]

\* The link is followed, or the tab reloaded.  The server has a page only for
\* a secret it has; init() sends a link without a key to the 404 page.
Open(t, link) ==
  /\ Quiet(t)
  /\ IF rows[link.slug] = Null \/ link.key = Null
       THEN /\ tab' = [tab EXCEPT ![t] = [Closed EXCEPT !.at = "404"]]
            /\ UNCHANGED <<asked, answer>>
       ELSE /\ tab' = [tab EXCEPT ![t] = [Closed EXCEPT !.at = "loading",
                                            !.slug = link.slug, !.key = link.key]]
            /\ Ask(t, "meta", link.slug, Null)
  /\ UNCHANGED <<rows, late, broken, burned, expired, astray, read>>

Has(t, at, statuses) ==
  /\ tab[t].at = at
  /\ answer[t] # Null
  /\ answer[t].status \in statuses

Done(t) ==
  /\ asked' = [asked EXCEPT ![t] = Null]
  /\ answer' = [answer EXCEPT ![t] = Null]
  /\ UNCHANGED <<rows, late, broken, burned, expired, astray>>

MetaArrives(t) ==
  /\ \/ /\ Has(t, "loading", {"200"})
        /\ tab' = [tab EXCEPT ![t].at = "ready",
                              ![t].needsPassphrase = answer[t].gated]
     \/ /\ Has(t, "loading", {"404", "500"})
        /\ tab' = [tab EXCEPT ![t] = [Closed EXCEPT !.at = "404"]]
  /\ Done(t)
  /\ UNCHANGED read

\* The button, which is disabled until the answer is there.  A missing
\* passphrase is a message and no request.
Reveal(t) ==
  /\ tab[t].at = "ready"
  /\ \E passphrase \in IF tab[t].needsPassphrase THEN Passphrases ELSE {Null} :
       /\ tab' = [tab EXCEPT ![t].at = "asking", ![t].passphrase = passphrase]
       /\ Ask(t, "consume", tab[t].slug,
              IF passphrase = Null THEN Null
                                   ELSE DeriveVerifier(passphrase, tab[t].slug))
  /\ UNCHANGED <<rows, late, broken, burned, expired, astray, read>>

\* Mutant: a 500 is not looked at.
RefusedNot500(t) ==
  /\ \/ /\ Has(t, "asking", {"403"})
        /\ tab' = [tab EXCEPT ![t].at = "ready", ![t].passphrase = Null]
     \/ /\ Has(t, "asking", {"429"})
        /\ tab' = [tab EXCEPT ![t] = [Closed EXCEPT !.at = "locked"]]
     \/ /\ Has(t, "asking", {"404"})
        /\ tab' = [tab EXCEPT ![t] = [Closed EXCEPT !.at = "404"]]
  /\ Done(t)
  /\ UNCHANGED read

\* 403 gives the button back; 429 leaves it disabled; anything else is the
\* 404 page.
Refused(t) ==
  /\ \/ /\ Has(t, "asking", {"403"})
        /\ tab' = [tab EXCEPT ![t].at = "ready", ![t].passphrase = Null]
     \/ /\ Has(t, "asking", {"429"})
        /\ tab' = [tab EXCEPT ![t] = [Closed EXCEPT !.at = "locked"]]
     \/ /\ Has(t, "asking", {"404", "500"})
        /\ tab' = [tab EXCEPT ![t] = [Closed EXCEPT !.at = "404"]]
  /\ Done(t)
  /\ UNCHANGED read

\* Mutant: the passphrase went into the proof but not into the key.
DecryptBare(t) ==
  LET opens == Decrypts(answer[t].ciphertext, tab[t].key, tab[t].slug, Null) IN
  /\ Has(t, "asking", {"200"})
  /\ tab' = [tab EXCEPT ![t] = [Closed EXCEPT !.at = IF opens THEN "secret" ELSE "404"]]
  /\ read' = IF opens THEN read \cup {answer[t].ciphertext} ELSE read
  /\ Done(t)

Decrypt(t) ==
  LET opens == Decrypts(answer[t].ciphertext, tab[t].key, tab[t].slug, tab[t].passphrase) IN
  /\ Has(t, "asking", {"200"})
  /\ tab' = [tab EXCEPT ![t] = [Closed EXCEPT !.at = IF opens THEN "secret" ELSE "404"]]
  /\ read' = IF opens THEN read \cup {answer[t].ciphertext} ELSE read
  /\ Done(t)

\* Neither init() nor reveal() catches what fetch() throws: nothing changes.
Unhandled(t) ==
  /\ tab[t].at \in {"loading", "asking"}
  /\ answer[t] = Answer(Lost)
  /\ Done(t)
  /\ UNCHANGED <<tab, read>>

RevealInit ==
  /\ tab = [t \in Readers |-> Closed]
  /\ read = {}

Handler(t) ==
  MetaArrives(t) \/ Refused(t) \/ Decrypt(t) \/ Unhandled(t)
=============================================================================
