--------------------------- MODULE MCRateLimiter ---------------------------
(* RateLimiter for TLC.                                                    *)
EXTENDS RateLimiter, TLC

\* Threads are interchangeable.
Symmetry == Permutations(Threads)
============================================================================
