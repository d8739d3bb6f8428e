--------------------------- MODULE MCRateLimiter ---------------------------
(* Model-checking instances of RateLimiter. *)
EXTENDS RateLimiter, TLC

CONSTANTS r1, r2, r3, r4

FourRequests == {r1, r2, r3, r4}

(* Requests are interchangeable. *)
Symmetry == Permutations(Requests)
=============================================================================
