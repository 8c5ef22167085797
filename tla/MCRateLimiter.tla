--------------------------- MODULE MCRateLimiter ----------------------------
(***************************************************************************)
(* Instances of RateLimiter: a window of a few seconds and a budget of two *)
(* instead of 60 and 60.                                                   *)
(***************************************************************************)
EXTENDS RateLimiter, TLC

Symmetry == Permutations(Remotes)
=============================================================================
