----------------------- MODULE SecretStoreRefinement -----------------------
(***************************************************************************)
(* SecretStore implements OneTimeSecret: the refinement mapping.           *)
(***************************************************************************)
EXTENDS SecretStore

Pending(b) == \E w \in Workers : req[w].at = "insert" /\ req[w].row.blob = b

\* A copy of b's row could still be answered: in the table as seen or as
\* committed, or in the hands of a consume.
Alive(b) ==
  \/ b \in Stored(db) \cup Stored(disk)
  \/ \E w \in Workers : Holds(w, b)

\* "copied" is no phase of OneTimeSecret: nothing is left of an answered secret.
Phase(b) ==
  IF posted[b] = Null   THEN "unborn"
  ELSE IF served[b] > 0 THEN IF Alive(b) THEN "copied" ELSE "released"
  ELSE IF Pending(b)    THEN "offered"
  ELSE IF Alive(b)      THEN "sealed"
  ELSE "gone"

Abstract == INSTANCE OneTimeSecret WITH
  Secrets  <- Blobs,
  phase    <- [b \in Blobs |-> Phase(b)],
  deadline <- [b \in Blobs |-> IF posted[b] = Null THEN 0
                                                   ELSE posted[b].expires]

\* The server, whatever its threads and restarts do to the shared connection,
\* does only what OneTimeSecret allows: a secret is answered at most once,
\* before its deadline, and never comes back after it was answered or lost.
RefinesOneTimeSecret == Abstract!Init /\ [][Abstract!Next]_(Abstract!vars)
============================================================================
