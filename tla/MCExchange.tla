----------------------------- MODULE MCExchange -----------------------------
(* Symmetry for the safety runs of Exchange: readers and passphrases are    *)
(* told apart by no definition.                                            *)
EXTENDS ExchangeRefinement, TLC

Symmetry == Permutations(Readers) \cup Permutations(Passphrases)
=============================================================================
