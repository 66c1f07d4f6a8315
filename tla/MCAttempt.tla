------------------------------ MODULE MCAttempt ------------------------------
(***************************************************************************)
(* Attempt with two declared checks: the smallest number with a first, a   *)
(* last and a passing prefix that is not the whole.                        *)
(***************************************************************************)
EXTENDS AttemptPromise
=============================================================================
