---------------------------- MODULE MCRetryQueue ----------------------------
(***************************************************************************)
(* Instances of RetryQueue with the constants of retry_queue.rs and        *)
(* lib.rs, in seconds.                                                     *)
(***************************************************************************)
EXTENDS RetryQueue, TLC

MCBackoff == <<5, 15>>

Symmetry == Permutations(Msgs)
=============================================================================
