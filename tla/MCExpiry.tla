------------------------------ MODULE MCExpiry ------------------------------
(* A configuration cannot write a negative number.                         *)
EXTENDS Expiry

\* The clock is put back, left alone or put forward before the date that the
\* page computes.
ClockChanges == {-1, 0, 1}
=============================================================================
