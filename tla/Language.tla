------------------------------ MODULE Language ------------------------------
(***************************************************************************)
(* negotiate() of app/i18n.py: one pass over the parts of Accept-Language. *)
(* A part is its language, two letters in lower case, and its weight: q,   *)
(* or 1 without one, or 0 if it is no number.  Weights are counted in      *)
(* fractions of 1.                                                         *)
(***************************************************************************)
EXTENDS Integers, Sequences

CONSTANTS
  Languages,   \* what a header may name
  Supported,   \* those with a catalog
  Default,     \* "en"
  Weights,     \* the weights a header may give
  MaxParts     \* bound: parts of a header

VARIABLES
  header,
  i,        \* the part the loop is at
  best,
  best_q

vars == <<header, i, best, best_q>>

Parts == [code : Languages, q : Weights]

Init ==
  /\ header \in UNION {[1..k -> Parts] : k \in 0..MaxParts}
  /\ i = 1
  /\ best = Default
  /\ best_q = 0

\* Mutant: ">=" for ">".
BetterOrEqual(part) == part.code \in Supported /\ part.q >= best_q

Better(part) == part.code \in Supported /\ part.q > best_q

Step ==
  /\ i <= Len(header)
  /\ IF Better(header[i])
       THEN best' = header[i].code /\ best_q' = header[i].q
       ELSE UNCHANGED <<best, best_q>>
  /\ i' = i + 1
  /\ UNCHANGED header

Next == Step

Spec == Init /\ [][Next]_vars
----------------------------------------------------------------------------
(* Properties.                                                             *)

\* Among the first m parts of header h, part k is what a reader of the header
\* would choose: supported, of positive weight, and no other weighs more, or as
\* much and stands before it.
Chosen(h, k, m) ==
  /\ h[k].code \in Supported
  /\ h[k].q > 0
  /\ \A j \in 1..m : h[j].code \in Supported =>
       h[j].q < h[k].q \/ (h[j].q = h[k].q /\ j >= k)

\* Or there is nothing to choose.
NoneIn(h, m) == \A j \in 1..m : h[j].code \in Supported => h[j].q <= 0

\* The pass ends with the reader's choice, and with English when the header
\* has nothing that can be served.
PicksBest ==
  \/ \E k \in 1..i - 1 :
       Chosen(header, k, i - 1) /\ best = header[k].code /\ best_q = header[k].q
  \/ best = Default /\ best_q = 0 /\ NoneIn(header, i - 1)
=============================================================================
