------------------------- MODULE ExchangeRefinement -------------------------
(***************************************************************************)
(* Exchange implements OneTimeSecret too, from the form to the reader's    *)
(* tab: the refinement mapping.  A secret is a draw of the create page;    *)
(* releasing it is showing it.                                             *)
(***************************************************************************)
EXTENDS Exchange

Offers(q, k) == q.kind = "post" /\ q.ciphertext.key.link = k

\* Page p has asked the server to keep secret k, and it has not answered.
Offering(p, k) == asked[p] # Null /\ answer[p] = Null /\ Offers(asked[p], k)

Stored(k) == \E s \in Slugs \ {0} : rows[s] # Null /\ rows[s].ciphertext.key.link = k

\* Secret k is on its way to page p.
Getting(p, k) ==
  /\ answer[p] # Null
  /\ answer[p].ciphertext # Null
  /\ answer[p].ciphertext.key.link = k

Pending(k) == (\E p \in Pages : Offering(p, k)) \/ (\E q \in late : Offers(q, k))

Alive(k) == Stored(k) \/ \E p \in Pages : Getting(p, k)

Shown(k) == \E c \in read : c.key.link = k

\* "copied" is no phase of OneTimeSecret: nothing is left of a secret shown.
Phase(k) ==
  IF k > draws       THEN "unborn"
  ELSE IF Shown(k)   THEN IF Pending(k) \/ Alive(k) THEN "copied" ELSE "released"
  ELSE IF Pending(k) THEN "offered"
  ELSE IF Alive(k)   THEN "sealed"
  ELSE "gone"

\* Exchange has no clock: a secret may expire at any time, which is to lose it.
Abstract == INSTANCE OneTimeSecret WITH
  Secrets   <- LinkKeys,
  Lifetimes <- {1},
  now       <- 0,
  phase     <- [k \in LinkKeys |-> Phase(k)],
  deadline  <- [k \in LinkKeys |-> IF k > draws THEN 0 ELSE 1]

\* Whatever collides, breaks, is handled late, reloaded or pressed again, the
\* pages and the server together do only what OneTimeSecret allows: a secret is
\* offered once, stored once, shown to one reader at most, and one that was
\* shown or lost is never stored or shown again.
RefinesOneTimeSecret == Abstract!Init /\ [][Abstract!Next]_(Abstract!vars)
=============================================================================
