--------------------------- MODULE MCSecretStore ---------------------------
(***************************************************************************)
(* SecretStore for TLC: symmetry, and what the documentation says of the   *)
(* program that the interleaved server does not keep (README.md,           *)
(* "Findings").                                                            *)
(***************************************************************************)
EXTENDS SecretStoreRefinement, TLC

\* Threads, blobs and slugs are interchangeable.
Symmetry ==
  Permutations(Workers) \cup Permutations(Blobs) \cup Permutations(Slugs)
----------------------------------------------------------------------------
(* What the documentation says.                                            *)

\* README.md:18-19, "the process itself sweeps them hourly": every expired
\* secret leaves the table and the file.
SweptHourly ==
  \A b \in Blobs :
    /\ b \in Stored(db) \cup Stored(disk)
    /\ posted[b].expires <= now
    ~> b \notin Stored(db) \cup Stored(disk)

\* README.md:11, "every secret allows exactly one read": a secret that a
\* consume has deleted was read, or can still be read (or has expired).
ExactlyOneRead ==
  \A b \in taken :
    \/ served[b] = 1
    \/ posted[b].expires <= now
    \/ b \in Stored(disk)
    \/ \E w \in Workers : Holds(w, b)
============================================================================
