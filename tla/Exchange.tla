------------------------------ MODULE Exchange ------------------------------
(***************************************************************************)
(* The pages of senders and readers, the server and the network between    *)
(* them.  Links go from sender to reader unchanged, or damaged.            *)
(***************************************************************************)
EXTENDS CreatePage, RevealPage

CONSTANT
  Damaged    \* may a link lose its key or have another one?

ASSUME PagesAssumption ==
  /\ Pages = Senders \cup Readers
  /\ Senders \cap Readers = {}
  /\ Damaged \in BOOLEAN

vars == <<service, createVars, revealVars>>

\* The links a reader may follow.
Received ==
  IF Damaged
    THEN {Link(l.slug, k) : l \in shared, k \in LinkKeys \cup {Null}}
    ELSE shared

Create(p) == CreateStep(p) /\ UNCHANGED revealVars

OpenLink(t) == (\E link \in Received : Open(t, link)) /\ UNCHANGED createVars

Press(t) == Reveal(t) /\ UNCHANGED createVars

Handles(t) == Handler(t) /\ UNCHANGED createVars

Serves(p) == ServeRequest(p) /\ UNCHANGED <<createVars, revealVars>>

Outside ==
  /\ \/ \E p \in Pages : Break(p)
     \/ ServeLate
     \/ \E s \in Slugs : Expire(s) \/ Unlock(s)
  /\ UNCHANGED <<createVars, revealVars>>

Init == ServiceInit /\ CreateInit /\ RevealInit

Next ==
  \/ \E p \in Senders : Create(p)
  \/ \E t \in Readers : OpenLink(t) \/ Press(t) \/ Handles(t)
  \/ \E p \in Pages : Serves(p)
  \/ Outside

Spec == Init /\ [][Next]_vars

\* The server answers and the pages' handlers run; nobody need press a button,
\* and no connection need break or hold.
FairSpec ==
  /\ Spec
  /\ \A p \in Pages : WF_vars(Serves(p))
  /\ \A p \in Senders : WF_vars(Create(p) /\ form[p].at = "waiting")
  /\ \A t \in Readers : WF_vars(Handles(t))
----------------------------------------------------------------------------
(* Properties.                                                             *)

TypeOK ==
  /\ \A s \in Slugs \ {0} : rows[s] \in Rows \cup {Null}
  /\ \A p \in Pages : asked[p] \in Requests \cup {Null}
  /\ \A p \in Pages : answer[p] \in Answers \cup {Null}
  /\ late \subseteq Requests /\ astray \subseteq Requests
  /\ broken \in Nat
  /\ \A t \in Readers : tab[t].needsPassphrase \in BOOLEAN

\* The secret behind a link that a page has shown is in the table under its
\* slug, encrypted for that link, until it is consumed or expires.
LinkStored ==
  \A l \in shared :
    \/ /\ rows[l.slug] # Null
       /\ rows[l.slug].ciphertext.key.link = l.key
       /\ rows[l.slug].ciphertext.aad = l.slug
    \/ \E c \in burned \cup expired : c.key.link = l.key /\ c.aad = l.slug

\* No secret is stored of which no page shows the link, but for a create whose
\* answer is still coming, or was lost, or was a 500.
NoOrphans ==
  \A s \in Slugs \ {0} : rows[s] # Null =>
    \/ \E l \in shared : l.slug = s
    \/ \E q \in astray : q.kind = "post" /\ q.slug = s
    \/ \E p \in Senders : asked[p] # Null /\ asked[p].slug = s

\* A secret that was burned has been shown, or its answer is on the way to a
\* reader, or was lost, or was a 500.  With links undamaged.
NotWasted ==
  \A c \in burned :
    \/ c \in read
    \/ \E q \in astray : q.kind = "consume" /\ q.slug = c.aad
    \/ \E t \in Readers : answer[t] # Null /\ answer[t].ciphertext = c

\* One tab at most shows a given secret.
OneReader ==
  [][\A t \in Readers : tab'[t].at = "secret" /\ tab[t].at # "secret" =>
       answer[t].ciphertext \notin read]_vars

\* README.md:21-22, "before releasing or burning anything: a typo never
\* destroys a secret": only a request with the right passphrase burns.
TypoIsSafe ==
  [][\A c \in burned' \ burned :
       c.key.salt = Null \/
       \E q \in late \cup {asked[p] : p \in Pages} : q # Null /\ q.kind = "consume"
          /\ q.verifier = DeriveVerifier(c.key.salt[1], c.aad)]_vars

\* The form never hangs: whatever the network does, a submit ends in a link or
\* in a message and a form that works again.
SubmitEnds ==
  \A p \in Senders : form[p].at = "waiting" ~> form[p].at # "waiting"

\* A press of the button ends in the secret, a message or the 404 page, unless
\* the connection broke: what fetch() throws nobody catches, and the page stays
\* as it is, with no request under way.
RevealEnds ==
  \A t \in Readers :
    tab[t].at = "asking" ~> tab[t].at # "asking" \/ Quiet(t)
=============================================================================
