----------------------------- MODULE ChainPromise -----------------------------
(***************************************************************************)
(* The record of a factory implements the record promise.                  *)
(***************************************************************************)
EXTENDS Chain

Sight ==
  CASE disk.phase = "absent"                                               -> "absent"
    [] disk.phase # "absent" /\ disk.complete                              -> "success"
    [] disk.phase # "absent" /\ ~disk.complete /\ disk.phase = "finished"  -> "settled"
    [] OTHER                                                               -> "open"

CallerAnswer ==
  CASE reply = "COMPLETE"                                -> "success"
    [] reply \in StopOutcomes                            -> "settled"
    [] reply \in {"refused", "raised", "unfinalized"}    -> "exception"
    [] reply \in {"interrupted", "unpersisted", "crashed"} -> "lost"
    [] OTHER                                             -> "none"

Aggregate == INSTANCE RecordPromise
  WITH visible <- Sight, answer <- CallerAnswer

\* A factory shows success only after validating its children, answers COMPLETE
\* only after reading its record back, and withdraws the success before it
\* raises; and the factory always ends: it implements RecordPromise.
KeepsPromise == Aggregate!Promise
=============================================================================
