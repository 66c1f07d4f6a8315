------------------------------- MODULE MCRepair -------------------------------
(***************************************************************************)
(* Three attempts and three candidates: a retry can repeat an earlier      *)
(* candidate with another one in between, and the budget can end with      *)
(* nothing repeated.                                                       *)
(***************************************************************************)
EXTENDS RepairPromise
=============================================================================
